---- MODULE Spec2Model ----
(***************************************************************************)
(* A model of github.com/hnakamur/go-zabbixsender: the Zabbix sender       *)
(* ("trapper") client.  sender.go builds a framed request packet from a    *)
(* batch of TrapperData, writes it to a TCP connection under one absolute  *)
(* deadline and parses the framed JSON response read from the same         *)
(* connection.                                                             *)
(*                                                                         *)
(* Representation.  A Go byte slice or string is a sequence of runs        *)
(* [unit |-> <<b1, ..., bk>>, n |-> count]: the bytes of unit repeated n   *)
(* times.  Runs let a model value stand for a slice whose length is near   *)
(* nonLargePacketSizeLimit (1 GiB) while every operation on it (length,    *)
(* indexing, escaping, patching) is computed as sender.go computes it.     *)
(* Short byte strings (a response stream, a header) are plain sequences    *)
(* of byte values 0..255.                                                  *)
(***************************************************************************)
EXTENDS Integers, Sequences, FiniteSets, TLC

(***************************************************************************)
(* Bytes and characters                                                    *)
(***************************************************************************)

\* The ASCII code of every printable character used in a literal.
CharCode ==
    (" " :> 32) @@ ("!" :> 33) @@ ("\"" :> 34) @@ ("#" :> 35) @@ ("$" :> 36) @@ ("%" :> 37) @@
    ("&" :> 38) @@ ("(" :> 40) @@ (")" :> 41) @@ ("*" :> 42) @@ ("+" :> 43) @@
    ("," :> 44) @@ ("-" :> 45) @@ ("." :> 46) @@ ("/" :> 47) @@ ("0" :> 48) @@ ("1" :> 49) @@
    ("2" :> 50) @@ ("3" :> 51) @@ ("4" :> 52) @@ ("5" :> 53) @@ ("6" :> 54) @@ ("7" :> 55) @@
    ("8" :> 56) @@ ("9" :> 57) @@ (":" :> 58) @@ (";" :> 59) @@ ("<" :> 60) @@ ("=" :> 61) @@
    (">" :> 62) @@ ("?" :> 63) @@ ("@" :> 64) @@ ("A" :> 65) @@ ("B" :> 66) @@ ("C" :> 67) @@
    ("D" :> 68) @@ ("E" :> 69) @@ ("F" :> 70) @@ ("G" :> 71) @@ ("H" :> 72) @@ ("I" :> 73) @@
    ("J" :> 74) @@ ("K" :> 75) @@ ("L" :> 76) @@ ("M" :> 77) @@ ("N" :> 78) @@ ("O" :> 79) @@
    ("P" :> 80) @@ ("Q" :> 81) @@ ("R" :> 82) @@ ("S" :> 83) @@ ("T" :> 84) @@ ("U" :> 85) @@
    ("V" :> 86) @@ ("W" :> 87) @@ ("X" :> 88) @@ ("Y" :> 89) @@ ("Z" :> 90) @@ ("[" :> 91) @@
    ("\\" :> 92) @@ ("]" :> 93) @@ ("^" :> 94) @@ ("_" :> 95) @@ ("a" :> 97) @@
    ("b" :> 98) @@ ("c" :> 99) @@ ("d" :> 100) @@ ("e" :> 101) @@ ("f" :> 102) @@ ("g" :> 103) @@
    ("h" :> 104) @@ ("i" :> 105) @@ ("j" :> 106) @@ ("k" :> 107) @@ ("l" :> 108) @@ ("m" :> 109) @@
    ("n" :> 110) @@ ("o" :> 111) @@ ("p" :> 112) @@ ("q" :> 113) @@ ("r" :> 114) @@ ("s" :> 115) @@
    ("t" :> 116) @@ ("u" :> 117) @@ ("v" :> 118) @@ ("w" :> 119) @@ ("x" :> 120) @@ ("y" :> 121) @@
    ("z" :> 122) @@ ("{" :> 123) @@ ("|" :> 124) @@ ("}" :> 125) @@ ("~" :> 126)

\* The bytes of a literal written as a tuple of one-character strings.
Bytes(t) == [i \in 1..Len(t) |-> CharCode[t[i]]]

\* The greatest and the least element of a non-empty set of integers.
Max(S) == CHOOSE m \in S : \A o \in S : o <= m

Min(S) == CHOOSE m \in S : \A o \in S : m <= o

\* p[lo] \o ... \o p[hi] and p[lo] + ... + p[hi]: what a loop that appends
\* to a buffer, or adds to a counter, has built after its last iteration.
RECURSIVE Concat(_, _, _)
Concat(p, lo, hi) ==
    IF lo > hi THEN <<>>
    ELSE IF lo = hi THEN p[lo]
    ELSE Concat(p, lo, (lo + hi) \div 2) \o Concat(p, (lo + hi) \div 2 + 1, hi)

RECURSIVE Sum(_, _, _)
Sum(p, lo, hi) ==
    IF lo > hi THEN 0
    ELSE IF lo = hi THEN p[lo]
    ELSE Sum(p, lo, (lo + hi) \div 2) + Sum(p, (lo + hi) \div 2 + 1, hi)

\* The element of a one-element set.  The({F : x \in {v}}) is F with the
\* name x bound to the value v, as "x := v" binds it for the statements
\* that follow: nested, the bindings read from the innermost outwards,
\* that is from the last line up.
The(S) == CHOOSE x \in S : TRUE

\* The position after the run of bytes of set that starts at d[i]: where a
\* loop "for i < len(d) && d[i] is in set { i++ }" stops.
RunEnd(d, i, set) ==
    IF i > Len(d) THEN i
    ELSE CHOOSE j \in i..(Len(d) + 1) :
            (j > Len(d) \/ d[j] \notin set) /\ \A k \in i..(j - 1) : d[k] \in set

\* A plain byte sequence as a run sequence, and a literal as a run sequence.
Runs(bs) == IF bs = <<>> THEN <<>> ELSE <<[unit |-> bs, n |-> 1]>>

Lit(t) == Runs(Bytes(t))

\* len(s) of a run sequence.
BLen(s) == Sum([j \in 1..Len(s) |-> Len(s[j].unit) * s[j].n], 1, Len(s))

\* s[i] of a run sequence, 0-based as in Go.
RECURSIVE ByteAt(_, _)
ByteAt(s, i) ==
    LET l == Len(s[1].unit) * s[1].n IN
    IF i < l THEN s[1].unit[(i % Len(s[1].unit)) + 1]
    ELSE ByteAt(Tail(s), i - l)

\* s[:k] as a plain byte sequence (k <= len(s)).
Prefix(s, k) == [i \in 1..k |-> ByteAt(s, i - 1)]

\* s[k:] of a run sequence (k <= len(s)).
RECURSIVE Drop(_, _)
Drop(s, k) ==
    IF k = 0 THEN s
    ELSE LET u == s[1].unit
             l == Len(u) * s[1].n
         IN  IF k >= l THEN Drop(Tail(s), k - l)
             ELSE LET whole == k \div Len(u)
                      part  == k % Len(u)
                  IN  IF part = 0
                      THEN <<[unit |-> u, n |-> s[1].n - whole]>> \o Tail(s)
                      ELSE Runs(SubSeq(u, part + 1, Len(u)))
                           \o (IF s[1].n - whole - 1 > 0
                               THEN <<[unit |-> u, n |-> s[1].n - whole - 1]>>
                               ELSE <<>>)
                           \o Tail(s)

\* binary.LittleEndian: the 4 bytes of a uint32, and the uint32 of 4 bytes.
PutUint32Bytes(v) ==
    <<v % 256, (v \div 256) % 256, (v \div 65536) % 256, (v \div 16777216) % 256>>

Uint32(b) == b[1] + 256 * b[2] + 65536 * b[3] + 16777216 * b[4]

\* binary.LittleEndian.PutUint32(packet[off:off+4], v): the slice patched in place.
PutUint32(packet, off, v) ==
    Runs(Prefix(packet, off)) \o Runs(PutUint32Bytes(v)) \o Drop(packet, off + 4)

(***************************************************************************)
(* Constants of sender.go                                                  *)
(***************************************************************************)

defaultZabbixServerPort == 10051

nonLargePacketSizeLimit == 1024 * 1024 * 1024

(***************************************************************************)
(* Errors.  A Go error is [msg, cause, timeout]: msg is the text the       *)
(* package itself wrote, cause the text of the error it was formatted      *)
(* from with %s (or, for an error returned as it is, the error's own       *)
(* text), timeout whether the value answers Timeout() = true, which only   *)
(* a net.Error returned as it is does.                                     *)
(***************************************************************************)

\* The nil error.
NoErr == [msg |-> "nil", cause |-> "", timeout |-> FALSE]

\* errors.New(msg)
NewError(m) == [msg |-> m, cause |-> "", timeout |-> FALSE]

\* fmt.Errorf(msg + ": %s", err): the cause survives as text only.
Errorf(m, err) ==
    [msg |-> m, cause |-> IF err.msg = "" THEN err.cause ELSE err.msg, timeout |-> FALSE]

\* An error of another package (net, io, encoding/json, fmt) returned as it is.
Foreign(text, isTimeout) == [msg |-> "", cause |-> text, timeout |-> isTimeout]

ErrRequestPacketSizeLimitExeeded == NewError("request packet size limit exceeded")

protocol == Bytes(<<"Z", "B", "X", "D">>)

protocolFlagZabbixCommunications == 1

dataLenOffset == Len(protocol) + 1

dataLenLen == 4

reservedLen == 4

headerLen == dataLenOffset + dataLenLen + reservedLen

requestType == Lit(<<"s", "e", "n", "d", "e", "r", " ", "d", "a", "t", "a">>)

(***************************************************************************)
(* encoding/json, as json.NewEncoder(&b).Encode(req) uses it               *)
(***************************************************************************)

HexDigit(d) == IF d < 10 THEN 48 + d ELSE 87 + d

\* One byte of a Go string inside a JSON string literal (the encoder escapes
\* HTML characters by default).  A byte >= 0x80 stands alone in the model's
\* strings, which makes it invalid UTF-8: the encoder writes � for it.
EscapeByte(b) ==
    CASE b = 34 -> Bytes(<<"\\", "\"">>)
      [] b = 92 -> Bytes(<<"\\", "\\">>)
      [] b = 10 -> Bytes(<<"\\", "n">>)
      [] b = 13 -> Bytes(<<"\\", "r">>)
      [] b = 9  -> Bytes(<<"\\", "t">>)
      [] b >= 128 -> Bytes(<<"\\", "u", "f", "f", "f", "d">>)
      [] b < 32 \/ b \in {60, 62, 38} ->
            Bytes(<<"\\", "u", "0", "0">>) \o <<HexDigit(b \div 16), HexDigit(b % 16)>>
      [] OTHER -> <<b>>

EscapeBytes(bs) == Concat([j \in 1..Len(bs) |-> EscapeByte(bs[j])], 1, Len(bs))

\* A Go string as a JSON string literal.
encodeString(s) ==
    Lit(<<"\"">>)
    \o [i \in 1..Len(s) |-> [unit |-> EscapeBytes(s[i].unit), n |-> s[i].n]]
    \o Lit(<<"\"">>)

\* type TrapperData struct { Host, Key, Value string } with its json tags.
encodeTrapperData(d) ==
    Lit(<<"{", "\"", "h", "o", "s", "t", "\"", ":">>) \o encodeString(d.Host)
    \o Lit(<<",", "\"", "k", "e", "y", "\"", ":">>) \o encodeString(d.Key)
    \o Lit(<<",", "\"", "v", "a", "l", "u", "e", "\"", ":">>) \o encodeString(d.Value)
    \o Lit(<<"}">>)

RECURSIVE encodeElems(_)
encodeElems(elems) ==
    IF elems = <<>> THEN <<>>
    ELSE encodeTrapperData(Head(elems))
         \o (IF Tail(elems) = <<>> THEN <<>> ELSE Lit(<<",">>))
         \o encodeElems(Tail(elems))

\* A []TrapperData is [isNil, elems]: a nil slice encodes as null.
encodeData(data) ==
    IF data.isNil THEN Lit(<<"n", "u", "l", "l">>)
    ELSE Lit(<<"[">>) \o encodeElems(data.elems) \o Lit(<<"]">>)

\* type request struct { Request string; Data []TrapperData }; Encode ends
\* the value with a newline.
encodeRequest(req) ==
    Lit(<<"{", "\"", "r", "e", "q", "u", "e", "s", "t", "\"", ":">>)
    \o encodeString(req.Request)
    \o Lit(<<",", "\"", "d", "a", "t", "a", "\"", ":">>) \o encodeData(req.Data)
    \o Lit(<<"}">>) \o Runs(<<10>>)

(***************************************************************************)
(* buildRequestPacket                                                      *)
(***************************************************************************)

\* The buffer before the length is patched: the header with a zero length
\* and a zero reserved field, then the encoded request.
unpatchedPacket(data) ==
    Runs(protocol) \o Runs(<<protocolFlagZabbixCommunications>>)
    \o Runs(PutUint32Bytes(0)) \o Runs(PutUint32Bytes(0))
    \o encodeRequest([Request |-> requestType, Data |-> data])

\* The length of the whole packet, header included.
dataLenOfPacket(packetLen) == packetLen

\* uint32(packetLen - headerLen): the operand is in 0..nonLargePacketSizeLimit
\* here, where the conversion changes nothing.
dataLenOf(packetLen) == packetLen - headerLen

\* packetLen >= nonLargePacketSizeLimit
packetAtLimitTooLarge(packetLen) == packetLen >= nonLargePacketSizeLimit

\* packetLen > nonLargePacketSizeLimit
packetTooLarge(packetLen) == packetLen > nonLargePacketSizeLimit

buildRequestPacket(data) ==
    The({
        IF packetTooLarge(BLen(packet))
        THEN [packet |-> <<>>, isNil |-> TRUE, err |-> ErrRequestPacketSizeLimitExeeded]
        ELSE [packet |-> PutUint32(packet, dataLenOffset, dataLenOf(BLen(packet))),
              isNil  |-> FALSE,
              err    |-> NoErr]
        : packet \in {unpatchedPacket(data)}})


(***************************************************************************)
(* encoding/json, as json.Unmarshal(dataBuf, &resp) uses it.  The input is *)
(* a plain byte sequence; positions are 1-based.  A scan result is         *)
(* [ok, next, kind, str, members]: next is the position after the value,   *)
(* str a string value's decoded bytes, members an object's members as      *)
(* [key, kind, str] in input order.                                        *)
(***************************************************************************)

isJSONSpace(c) == c \in {32, 9, 13, 10}

isDigit(c) == c >= 48 /\ c <= 57

isHex(c) == isDigit(c) \/ (c >= 97 /\ c <= 102) \/ (c >= 65 /\ c <= 70)

HexVal(c) == IF isDigit(c) THEN c - 48 ELSE IF c >= 97 THEN c - 87 ELSE c - 55

ScanFail(i) == [ok |-> FALSE, next |-> i, kind |-> "", str |-> <<>>, members |-> <<>>]

ScanOk(i, k, s, m) == [ok |-> TRUE, next |-> i, kind |-> k, str |-> s, members |-> m]

\* The position after the JSON white space (space, tab, CR, LF) that starts at i.
skipWS(d, i) == RunEnd(d, i, {32, 9, 13, 10})

\* utf8.AppendRune for a code point of the basic plane; a surrogate half
\* decodes to U+FFFD (unquote pairs two halves; the model's inputs hold none).
EncodeRune(cp) ==
    IF cp < 128 THEN <<cp>>
    ELSE IF cp < 2048 THEN <<192 + (cp \div 64), 128 + (cp % 64)>>
    ELSE IF cp >= 55296 /\ cp <= 57343 THEN <<239, 191, 189>>
    ELSE <<224 + (cp \div 4096), 128 + ((cp \div 64) % 64), 128 + (cp % 64)>>

\* The byte a one-character escape stands for: \" \\ \/ \b \f \n \r \t.
Unescaped(e) ==
    CASE e = 34 -> 34 [] e = 92 -> 92 [] e = 47 -> 47 [] e = 98 -> 8
      [] e = 102 -> 12 [] e = 110 -> 10 [] e = 114 -> 13 [] e = 116 -> 9

\* A string literal from the byte after its opening quote, d[i].  A
\* backslash starts an escape when an even number of backslashes precedes
\* it in the literal; the literal ends at the first quote no escape covers.
backslashesBefore(d, i, j) == (j - i) - Cardinality({k \in i..(j - 1) : \E m \in k..(j - 1) : d[m] # 92})

startsEscape(d, i, k) == d[k] = 92 /\ backslashesBefore(d, i, k) % 2 = 0

\* d[k] belongs to the escape a byte before it starts.
inEscape(d, i, k) ==
    \/ k > i /\ startsEscape(d, i, k - 1)
    \/ \E m \in 2..5 : k - m >= i /\ d[k - m + 1] = 117 /\ startsEscape(d, i, k - m)

validEscape(d, k) ==
    /\ k + 1 <= Len(d)
    /\ \/ d[k + 1] \in {34, 92, 47, 98, 102, 110, 114, 116}
       \/ d[k + 1] = 117 /\ k + 5 <= Len(d) /\ \A m \in 2..5 : isHex(d[k + m])

\* What unquote writes for d[k].  A byte >= 0x80 stands alone in the
\* model's inputs (invalid UTF-8): unquote replaces it by U+FFFD.
unquoted(d, i, k) ==
    CASE inEscape(d, i, k) -> <<>>
      [] d[k] = 92 /\ d[k + 1] = 117 ->
            EncodeRune(4096 * HexVal(d[k + 2]) + 256 * HexVal(d[k + 3])
                       + 16 * HexVal(d[k + 4]) + HexVal(d[k + 5]))
      [] d[k] = 92 -> <<Unescaped(d[k + 1])>>
      [] d[k] >= 128 -> <<239, 191, 189>>
      [] OTHER -> <<d[k]>>

scanString(d, i) ==
    LET quotes == {j \in i..Len(d) : d[j] = 34 /\ backslashesBefore(d, i, j) % 2 = 0}
        q == Min(quotes)
    IN  IF quotes = {} THEN ScanFail(Len(d) + 1)
        ELSE IF \E k \in i..(q - 1) : d[k] < 32 \/ (startsEscape(d, i, k) /\ ~validEscape(d, k))
        THEN ScanFail(i)
        ELSE ScanOk(q + 1, "string", Concat([k \in i..(q - 1) |-> unquoted(d, i, k)], i, q - 1), <<>>)

\* The position after the decimal digits that start at i.
skipDigits(d, i) == RunEnd(d, i, 48..57)

\* A number: -? (0 | [1-9][0-9]*) (. [0-9]+)? ([eE] [+-]? [0-9]+)?
scanNumberLit(d, i) ==
    The({The({The({The({The({
        IF b = a \/ (c > b /\ c = b + 1) \/ (e > c /\ f = e) THEN ScanFail(i)
        ELSE ScanOk(f, "number", <<>>, <<>>)
        : f \in {IF e > c THEN skipDigits(d, e) ELSE c}})
        : e \in {IF c <= Len(d) /\ d[c] \in {101, 69}
                 THEN IF c + 1 <= Len(d) /\ d[c + 1] \in {43, 45} THEN c + 2 ELSE c + 1
                 ELSE c}})
        : c \in {IF b <= Len(d) /\ d[b] = 46 THEN skipDigits(d, b + 1) ELSE b}})
        : b \in {IF a <= Len(d) /\ d[a] = 48 THEN a + 1 ELSE skipDigits(d, a)}})
        : a \in {IF d[i] = 45 THEN i + 1 ELSE i}})

\* One of the literals true, false, null.
scanWord(d, i, word, k) ==
    IF i + Len(word) - 1 <= Len(d) /\ SubSeq(d, i, i + Len(word) - 1) = word
    THEN ScanOk(i + Len(word), k, <<>>, <<>>)
    ELSE ScanFail(i)

RECURSIVE scanValue(_, _), scanMembers(_, _, _), scanElems(_, _)
\* A value whose first byte is d[i].
scanValue(d, i) ==
    IF i > Len(d) THEN ScanFail(i)
    ELSE LET c == d[i] IN
         CASE c = 34 -> scanString(d, i + 1)
           [] c = 123 ->
                LET j == skipWS(d, i + 1) IN
                IF j <= Len(d) /\ d[j] = 125 THEN ScanOk(j + 1, "object", <<>>, <<>>)
                ELSE scanMembers(d, j, <<>>)
           [] c = 91 ->
                LET j == skipWS(d, i + 1) IN
                IF j <= Len(d) /\ d[j] = 93 THEN ScanOk(j + 1, "array", <<>>, <<>>)
                ELSE scanElems(d, j)
           [] c = 45 \/ isDigit(c) -> scanNumberLit(d, i)
           [] c = 116 -> scanWord(d, i, Bytes(<<"t", "r", "u", "e">>), "bool")
           [] c = 102 -> scanWord(d, i, Bytes(<<"f", "a", "l", "s", "e">>), "bool")
           [] c = 110 -> scanWord(d, i, Bytes(<<"n", "u", "l", "l">>), "null")
           [] OTHER -> ScanFail(i)

\* The members of an object from the first key's opening quote.
scanMembers(d, i, acc) ==
    IF i > Len(d) \/ d[i] # 34 THEN ScanFail(i)
    ELSE The({
            LET j == skipWS(d, key.next) IN
            IF ~key.ok \/ j > Len(d) \/ d[j] # 58 THEN ScanFail(j)
            ELSE The({
                    LET m   == skipWS(d, v.next)
                        all == Append(acc, [key |-> key.str, kind |-> v.kind, str |-> v.str])
                    IN  CASE ~v.ok \/ m > Len(d) -> ScanFail(m)
                          [] d[m] = 44 -> scanMembers(d, skipWS(d, m + 1), all)
                          [] d[m] = 125 -> ScanOk(m + 1, "object", <<>>, all)
                          [] OTHER -> ScanFail(m)
                    : v \in {scanValue(d, skipWS(d, j + 1))}})
            : key \in {scanString(d, i + 1)}})

\* The elements of an array from the first element.
scanElems(d, i) ==
    The({
        LET m == skipWS(d, v.next) IN
        CASE ~v.ok \/ m > Len(d) -> ScanFail(m)
          [] d[m] = 44 -> scanElems(d, skipWS(d, m + 1))
          [] d[m] = 93 -> ScanOk(m + 1, "array", <<>>, <<>>)
          [] OTHER -> ScanFail(m)
        : v \in {scanValue(d, i)}})

\* strings.EqualFold on ASCII: how a key that matches no field name exactly
\* is matched to a field.
ToLower(c) == IF c >= 65 /\ c <= 90 THEN c + 32 ELSE c

EqualFold(a, b) == Len(a) = Len(b) /\ \A i \in 1..Len(a) : ToLower(a[i]) = ToLower(b[i])

\* The zero Response: the fields json decodes, and the four it does not.
ZeroResponse ==
    [Response |-> <<>>, Info |-> <<>>,
     Processed |-> 0, Failed |-> 0, Total |-> 0,
     SecondsSpent |-> [kind |-> "num", neg |-> FALSE, mant |-> 0, exp |-> 0]]

\* One member stored into the struct: a string sets the field named
\* "response" or "info", null leaves it, any other kind is an
\* UnmarshalTypeError (kept, the first one, while decoding goes on); a key
\* naming no field is skipped.
RECURSIVE storeMembers(_, _)
storeMembers(members, st) ==
    IF members = <<>> THEN st
    ELSE LET m == Head(members)
             field == IF EqualFold(m.key, Bytes(<<"r", "e", "s", "p", "o", "n", "s", "e">>))
                      THEN "Response"
                      ELSE IF EqualFold(m.key, Bytes(<<"i", "n", "f", "o">>)) THEN "Info"
                      ELSE ""
             next == IF field = "" \/ m.kind = "null" THEN st
                     ELSE IF m.kind = "string"
                     THEN [st EXCEPT !.resp = [st.resp EXCEPT ![field] = m.str]]
                     ELSE IF st.err = NoErr
                     THEN [st EXCEPT !.err = Foreign("json: cannot unmarshal into Go struct field", FALSE)]
                     ELSE st
         IN  storeMembers(Tail(members), next)

\* json.Unmarshal(data, &resp) on a zero Response: [resp, err].
Unmarshal(data) ==
    The({
        CASE ~v.ok \/ skipWS(data, v.next) <= Len(data) ->
                [resp |-> ZeroResponse, err |-> Foreign("json: syntax error", FALSE)]
          [] v.kind = "object" -> storeMembers(v.members, [resp |-> ZeroResponse, err |-> NoErr])
          [] v.kind = "null" -> [resp |-> ZeroResponse, err |-> NoErr]
          [] OTHER -> [resp |-> ZeroResponse,
                       err |-> Foreign("json: cannot unmarshal into Go value", FALSE)]
        : v \in {scanValue(data, skipWS(data, 1))}})


(***************************************************************************)
(* fmt.Sscanf, as parseResponse uses it: the format is walked byte by      *)
(* byte against the input (ss.doScanf and ss.advance), with the      *)
(* verbs %d into *int and %f into *float64.  Runes are bytes: the model's  *)
(* info strings are ASCII.  An empty err is no error.                      *)
(***************************************************************************)

isSpace(c) == c \in {9, 10, 11, 12, 13, 32}

eof == 0 - 1

getRune(inp, ip) == IF ip > Len(inp) THEN eof ELSE inp[ip]

\* The position after the spaces other than newline that start at ip.
skipBlanks(inp, ip) == RunEnd(inp, ip, {9, 11, 12, 13, 32})

\* ss.SkipSpace when a newline is not a space (Sscanf).
SkipSpace(inp, ip) ==
    LET j == skipBlanks(inp, ip) IN
    IF j <= Len(inp) /\ inp[j] = 10 THEN [ip |-> j + 1, err |-> "unexpected newline"]
    ELSE [ip |-> j, err |-> ""]

\* The position after the bytes of set that start at ip.
acceptAll(inp, ip, set) == RunEnd(inp, ip, set)

\* ss.accept: one byte of set, if it is next.
accept(inp, ip, set) == IF ip <= Len(inp) /\ inp[ip] \in set THEN ip + 1 ELSE ip

\* The value of a sequence of decimal digits.
DecVal(ds) == Sum([k \in 1..Len(ds) |-> (ds[k] - 48) * 10 ^ (Len(ds) - k)], 1, Len(ds))

signChars == {43, 45}

decimalDigits == 48..57

hexadecimalDigits == decimalDigits \cup (97..102) \cup (65..70)

\* strconv.ParseInt(tok, 10, 64): a sign, then digits only.
ParseInt(tok) ==
    LET ds == IF tok # <<>> /\ tok[1] \in signChars THEN Tail(tok) ELSE tok IN
    IF ds = <<>> \/ \E i \in 1..Len(ds) : ~isDigit(ds[i])
    THEN [val |-> 0, err |-> "strconv.ParseInt: invalid syntax"]
    ELSE [val |-> IF tok[1] = 45 THEN 0 - DecVal(ds) ELSE DecVal(ds), err |-> ""]

\* ss.scanInt for %d: [val, ip, err].
scanInt(inp, ip0) ==
    The({
        LET a == accept(inp, s.ip, signChars)
            e == acceptAll(inp, a, decimalDigits)
            p == ParseInt(SubSeq(inp, s.ip, e - 1))
        IN  CASE s.err # "" -> [val |-> 0, ip |-> s.ip, err |-> s.err]
              [] s.ip > Len(inp) -> [val |-> 0, ip |-> s.ip, err |-> "EOF"]
              [] a > Len(inp) -> [val |-> 0, ip |-> a, err |-> "EOF"]
              [] inp[a] \notin decimalDigits -> [val |-> 0, ip |-> a, err |-> "expected integer"]
              [] OTHER -> [val |-> p.val, ip |-> e, err |-> p.err]
        : s \in {SkipSpace(inp, ip0)}})

\* A float64 is [kind, neg, mant, exp]: kind "num" is (-1)^neg * mant *
\* 10^exp with mant not a multiple of 10 (zero is mant 0, exp 0), so two
\* short decimal literals give the same float64 exactly when they give the
\* same record.
Float(neg, mant, exp) == [kind |-> "num", neg |-> neg, mant |-> mant, exp |-> exp]

RECURSIVE Normal(_, _, _)
Normal(neg, mant, exp) ==
    IF mant = 0 THEN Float(FALSE, 0, 0)
    ELSE IF mant % 10 = 0 THEN Normal(neg, mant \div 10, exp + 1)
    ELSE Float(neg, mant, exp)

\* s.accept(sets[1]) && ... && s.accept(sets[n]) from position ip: the
\* position after the bytes accepted, and whether every accept succeeded.
acceptSeq(inp, ip, sets) ==
    LET k == CHOOSE k \in 0..Len(sets) :
                /\ k = Len(sets) \/ accept(inp, ip + k, sets[k + 1]) = ip + k
                /\ \A h \in 1..k : accept(inp, ip + h - 1, sets[h]) > ip + h - 1
    IN  [ip |-> ip + k, all |-> k = Len(sets)]

\* The digits, the fraction and the exponent of ss.floatToken, from ip: d1
\* is the position after the digits, d2 the position after the fraction.
floatDigits(inp, ip, digits, exp) ==
    The({The({
        IF accept(inp, d2, exp) > d2
        THEN acceptAll(inp, accept(inp, d2 + 1, signChars), decimalDigits \cup {95})
        ELSE d2
        : d2 \in {IF accept(inp, d1, {46}) > d1 THEN acceptAll(inp, d1 + 1, digits) ELSE d1}})
        : d1 \in {acceptAll(inp, ip, digits)}})

\* ss.floatToken: the position after the token that starts at ip.
floatToken(inp, ip) ==
    The({
        IF nan.all THEN nan.ip
        ELSE The({
                IF inf.all THEN inf.ip
                ELSE The({
                        IF prefix.all
                        THEN floatDigits(inp, prefix.ip, hexadecimalDigits \cup {95}, {112, 80})
                        ELSE floatDigits(inp, prefix.ip, decimalDigits \cup {95}, {101, 69, 112, 80})
                        : prefix \in {acceptSeq(inp, inf.ip, <<{48}, {120, 88}>>)}})
                : inf \in {acceptSeq(inp, accept(inp, nan.ip, signChars),
                                     <<{105, 73}, {110, 78}, {102, 70}>>)}})
        : nan \in {acceptSeq(inp, ip, <<{110, 78}, {97, 65}, {110, 78}>>)}})

\* The decimal literal body (lower case, its sign removed) as a float64:
\* i1 is the position after the integer part, f1 after the fraction, e1
\* after the exponent mark, s1 after the exponent's sign, x1 after the
\* exponent.
parseDecimal(neg, body) ==
    The({The({The({The({The({
        LET ipart == SubSeq(body, 1, i1 - 1)
            fpart == SubSeq(body, i1 + 1, f1 - 1)
            expo  == IF e1 > f1
                     THEN (IF s1 > e1 /\ body[e1] = 45 THEN 0 - 1 ELSE 1)
                          * DecVal(SubSeq(body, s1, x1 - 1))
                     ELSE 0
        IN  IF x1 <= Len(body) \/ Len(ipart) + Len(fpart) = 0 \/ (e1 > f1 /\ x1 = s1)
            THEN [val |-> Float(FALSE, 0, 0), err |-> "strconv.ParseFloat: invalid syntax"]
            ELSE [val |-> Normal(neg, DecVal(ipart \o fpart), expo - Len(fpart)), err |-> ""]
        : x1 \in {IF e1 > f1 THEN acceptAll(body, s1, 48..57) ELSE e1}})
        : s1 \in {IF e1 > f1 THEN accept(body, e1, signChars) ELSE e1}})
        : e1 \in {accept(body, f1, {101})}})
        : f1 \in {IF accept(body, i1, {46}) > i1 THEN acceptAll(body, i1 + 1, 48..57) ELSE i1}})
        : i1 \in {acceptAll(body, 1, 48..57)}})

\* strconv.ParseFloat(tok, 64) behind ss.convertFloat.  Decimal tokens,
\* inf and nan are converted; a token with a hexadecimal mantissa or a
\* binary exponent is kept unconverted (kind "hex"): the model draws none.
ParseFloat(tok) ==
    LET low  == [i \in 1..Len(tok) |-> ToLower(tok[i])]
        neg  == tok # <<>> /\ tok[1] = 45
        body == IF tok # <<>> /\ tok[1] \in signChars THEN Tail(low) ELSE low
    IN  CASE low = Bytes(<<"n", "a", "n">>) ->
                [val |-> [kind |-> "nan", neg |-> FALSE, mant |-> 0, exp |-> 0], err |-> ""]
          [] body \in {Bytes(<<"i", "n", "f">>), Bytes(<<"i", "n", "f", "i", "n", "i", "t", "y">>)} ->
                [val |-> [kind |-> "inf", neg |-> neg, mant |-> 0, exp |-> 0], err |-> ""]
          [] \E i \in 1..Len(low) : low[i] \in {120, 112} ->
                [val |-> [kind |-> "hex", neg |-> neg, mant |-> 0, exp |-> 0], err |-> ""]
          [] OTHER -> parseDecimal(neg, body)

\* scanOne for a *float64 argument: [val, ip, err].
scanFloat(inp, ip0) ==
    The({
        CASE s.err # "" -> [val |-> Float(FALSE, 0, 0), ip |-> s.ip, err |-> s.err]
          [] s.ip > Len(inp) -> [val |-> Float(FALSE, 0, 0), ip |-> s.ip, err |-> "EOF"]
          [] OTHER ->
                The({The({
                    [val |-> p.val, ip |-> e, err |-> p.err]
                    : p \in {ParseFloat(SubSeq(inp, s.ip, e - 1))}})
                    : e \in {floatToken(inp, s.ip)}})
        : s \in {SkipSpace(inp, ip0)}})

\* The newlines of a space run of the format matched against the input.
RECURSIVE matchNewlines(_, _, _)
matchNewlines(inp, ip, k) ==
    IF k = 0 THEN [ip |-> ip, err |-> ""]
    ELSE LET j == skipBlanks(inp, ip) IN
         CASE j > Len(inp) -> matchNewlines(inp, j, k - 1)
           [] inp[j] = 10 -> matchNewlines(inp, j + 1, k - 1)
           [] OTHER -> [ip |-> j + 1, err |-> "newline in format does not match input"]

\* The position after the run of spaces of the format that starts at fp.
spaceRunEnd(fmt, fp) == RunEnd(fmt, fp, {9, 10, 11, 12, 13, 32})

\* ss.advance from format position fp and input position ip: [fp, ip,
\* how, err], how being "verb" (stopped at a verb), "end" (the format is
\* used up) or "mismatch" (a literal differs: advance returns -1).
\* The space run fmt[fp..fq-1] of the format matched against the input.
RECURSIVE advance(_, _, _, _)
advanceSpaces(fmt, fp, fq, inp, ip) ==
    The({
        LET inputc == getRune(inp, nl.ip) IN
        CASE nl.err # "" -> [fp |-> fq, ip |-> nl.ip, how |-> "", err |-> nl.err]
          [] fmt[fq - 1] = 10 -> advance(fmt, fq, inp, nl.ip)
          [] \A k \in fp..(fq - 1) : fmt[k] # 10 /\ ~isSpace(inputc) /\ inputc # eof ->
                [fp |-> fq, ip |-> nl.ip + 1, how |-> "",
                 err |-> "expected space in input to match format"]
          [] \A k \in fp..(fq - 1) : fmt[k] # 10 /\ inputc = 10 ->
                [fp |-> fq, ip |-> nl.ip + 1, how |-> "",
                 err |-> "newline in input does not match format"]
          [] OTHER -> advance(fmt, fq, inp, skipBlanks(inp, nl.ip))
        : nl \in {matchNewlines(inp, ip, Cardinality({k \in fp..(fq - 1) : fmt[k] = 10}))}})

\* The literal bytes fmt[fp..fq-1] of the format, each compared with the
\* next byte of the input: m is how many match before the first that does
\* not.
advanceLiteral(fmt, fp, fq, inp, ip) ==
    LET m == CHOOSE k \in 0..(fq - fp) :
                /\ k = fq - fp \/ getRune(inp, ip + k) # fmt[fp + k]
                /\ \A h \in 0..(k - 1) : getRune(inp, ip + h) = fmt[fp + h]
    IN  CASE m = fq - fp -> advance(fmt, fq, inp, ip + m)
          [] getRune(inp, ip + m) = eof ->
                [fp |-> fp + m, ip |-> ip + m, how |-> "", err |-> "unexpected EOF"]
          [] OTHER -> [fp |-> fp + m, ip |-> ip + m, how |-> "mismatch", err |-> ""]

advance(fmt, fp, inp, ip) ==
    CASE fp > Len(fmt) -> [fp |-> fp, ip |-> ip, how |-> "end", err |-> ""]
      [] isSpace(fmt[fp]) -> advanceSpaces(fmt, fp, spaceRunEnd(fmt, fp), inp, ip)
      [] fmt[fp] = 37 /\ fp = Len(fmt) ->
            [fp |-> fp, ip |-> ip, how |-> "", err |-> "missing verb: % at end of format string"]
      [] fmt[fp] = 37 /\ fmt[fp + 1] # 37 -> [fp |-> fp, ip |-> ip, how |-> "verb", err |-> ""]
      [] fmt[fp] = 37 ->
            \* %% matches one percent sign
            CASE getRune(inp, ip) = eof ->
                    [fp |-> fp + 1, ip |-> ip, how |-> "", err |-> "unexpected EOF"]
              [] getRune(inp, ip) # 37 -> [fp |-> fp + 1, ip |-> ip, how |-> "mismatch", err |-> ""]
              [] OTHER -> advance(fmt, fp + 2, inp, ip + 1)
      [] OTHER -> advanceLiteral(fmt, fp, RunEnd(fmt, fp, {c \in 0..255 : ~isSpace(c) /\ c # 37}), inp, ip)

\* The end of doScanf: arguments left over are "too many operands".
scanEnd(args, vals, ip, err) ==
    [n   |-> Len(vals),
     err |-> IF err = "" /\ Len(vals) < Len(args) THEN "too many operands" ELSE err,
     vals |-> vals,
     ip  |-> ip]

\* ss.doScanf from format position i: [n, err, vals, ip], vals the values
\* stored so far and ip the position after the input that was read.
\* The verb fmt[i..i+1] scanned into the next argument, after advance left
\* the input at position ip.
RECURSIVE doScanf(_, _, _, _, _, _)
scanVerb(fmt, i, inp, ip, args, vals) ==
    The({
        CASE sp.err # "" -> scanEnd(<<>>, vals, sp.ip, sp.err)
          [] Len(vals) >= Len(args) -> scanEnd(<<>>, vals, sp.ip, "too few operands for format")
          [] ~(\/ args[Len(vals) + 1] = "int" /\ fmt[i + 1] = 100
               \/ args[Len(vals) + 1] = "float64" /\ fmt[i + 1] = 102) ->
                scanEnd(<<>>, vals, sp.ip, "bad verb")
          [] OTHER ->
                The({
                    IF r.err # "" THEN scanEnd(<<>>, vals, r.ip, r.err)
                    ELSE doScanf(fmt, i + 2, inp, r.ip, args, Append(vals, r.val))
                    : r \in {IF args[Len(vals) + 1] = "int" THEN scanInt(inp, sp.ip)
                             ELSE scanFloat(inp, sp.ip)}})
        : sp \in {SkipSpace(inp, ip)}})

\* ss.doScanf from format position i: [n, err, vals, ip], vals the values
\* stored so far and ip the position after the input that was read.
doScanf(fmt, i, inp, ip, args, vals) ==
    IF i > Len(fmt) THEN scanEnd(args, vals, ip, "")
    ELSE The({
            CASE a.err # "" -> scanEnd(<<>>, vals, a.ip, a.err)
              [] a.how # "mismatch" /\ a.fp > i -> doScanf(fmt, a.fp, inp, a.ip, args, vals)
              [] fmt[i] # 37 /\ a.how = "mismatch" ->
                    scanEnd(<<>>, vals, a.ip, "input does not match format")
              [] fmt[i] # 37 -> scanEnd(args, vals, a.ip, "")
              [] OTHER -> scanVerb(fmt, i, inp, a.ip, args, vals)
            : a \in {advance(fmt, i, inp, ip)}})

Sscanf(str, fmt, args) == doScanf(fmt, 1, str, 1, args, <<>>)


(***************************************************************************)
(* addDefaultPortToAddressIfNeeded, with net.SplitHostPort,                *)
(* net.JoinHostPort and strconv.Itoa.  An address is a plain byte          *)
(* sequence.                                                               *)
(***************************************************************************)

\* The 1-based positions of byte c in s.
Positions(s, c) == {i \in 1..Len(s) : s[i] = c}

\* strconv.Itoa
RECURSIVE Itoa(_)
Itoa(v) ==
    IF v < 0 THEN <<45>> \o Itoa(0 - v)
    ELSE IF v < 10 THEN <<48 + v>>
    ELSE Itoa(v \div 10) \o <<48 + (v % 10)>>

\* net.SplitHostPort(hostport): whether it returns a nil error.
SplitHostPortOk(hostport) ==
    LET colons == Positions(hostport, 58)
        i == Max(colons)
        closes == Positions(hostport, 93)
        end == Min(closes)
        bracketed == hostport[1] = 91
        j == IF bracketed THEN 2 ELSE 1
        k == IF bracketed THEN end + 1 ELSE 1
    IN  /\ colons # {}
        /\ IF bracketed
           THEN closes # {} /\ end + 1 = i
           ELSE \A p \in colons : p = i
        /\ \A p \in Positions(hostport, 91) : p < j
        /\ \A p \in closes : p < k

\* net.JoinHostPort(host, port)
JoinHostPort(host, port) ==
    IF Positions(host, 58) # {} THEN <<91>> \o host \o <<93, 58>> \o port
    ELSE host \o <<58>> \o port

addDefaultPortToAddressIfNeeded(addr) ==
    IF ~SplitHostPortOk(addr) THEN JoinHostPort(addr, Itoa(defaultZabbixServerPort))
    ELSE addr

(***************************************************************************)
(* parseResponse.  The io.Reader is [stream, end]: the bytes it delivers   *)
(* and how it ends after them: "EOF" (the peer closed), "timeout" (the     *)
(* read deadline passed while waiting for more) or "reset" (the            *)
(* connection failed).  The result is [resp, isNil, err, consumed]:        *)
(* isNil is whether the *Response returned is nil, consumed the number of  *)
(* bytes read from the reader.                                             *)
(***************************************************************************)

infoFormat ==
    Bytes(<<"p", "r", "o", "c", "e", "s", "s", "e", "d", ":", " ", "%", "d", ";", " ",
            "f", "a", "i", "l", "e", "d", ":", " ", "%", "d", ";", " ",
            "t", "o", "t", "a", "l", ":", " ", "%", "d", ";", " ",
            "s", "e", "c", "o", "n", "d", "s", " ", "s", "p", "e", "n", "t", ":", " ", "%", "f">>)

\* io.ReadFull(r, buf) with len(buf) = n, from stream position pos (the
\* number of bytes already consumed): [data, err, pos].
ReadFull(r, pos, n) ==
    LET avail == Len(r.stream) - pos IN
    IF avail >= n
    THEN [data |-> SubSeq(r.stream, pos + 1, pos + n), err |-> NoErr, pos |-> pos + n]
    ELSE [data |-> SubSeq(r.stream, pos + 1, Len(r.stream)),
          err  |-> CASE r.end = "timeout" -> Foreign("i/o timeout", TRUE)
                     [] r.end = "reset" -> Foreign("connection reset by peer", FALSE)
                     [] OTHER -> IF avail = 0 THEN Foreign("EOF", FALSE)
                                 ELSE Foreign("unexpected EOF", FALSE),
          pos  |-> Len(r.stream)]

\* return &resp, err
parseFailedWithResponse(err, pos) == [resp |-> ZeroResponse, isNil |-> FALSE, err |-> err, consumed |-> pos]

\* return nil, err
parseFailed(err, pos) == [resp |-> ZeroResponse, isNil |-> TRUE, err |-> err, consumed |-> pos]

\* A header whose magic is compared by its first byte only.
hasProtocolFirstByte(headerBuf) == headerBuf[1] = protocol[1]

\* bytes.HasPrefix(headerBuf[:], []byte(protocol))
hasProtocol(headerBuf) == SubSeq(headerBuf, 1, Len(protocol)) = protocol

\* headerBuf[len(protocol)] == protocolFlagZabbixCommunications
hasFlag(headerBuf) == headerBuf[Len(protocol) + 1] = protocolFlagZabbixCommunications

\* The scanned values with &resp.Failed and &resp.Processed exchanged.
storeScannedSwapped(resp, vals) ==
    [resp EXCEPT !.Failed = IF Len(vals) >= 1 THEN vals[1] ELSE @,
                 !.Processed = IF Len(vals) >= 2 THEN vals[2] ELSE @,
                 !.Total = IF Len(vals) >= 3 THEN vals[3] ELSE @,
                 !.SecondsSpent = IF Len(vals) >= 4 THEN vals[4] ELSE @]

\* The scanned values with resp.Total made the sum of the two counters.
storeScannedTotalSummed(resp, vals) ==
    [resp EXCEPT !.Processed = IF Len(vals) >= 1 THEN vals[1] ELSE @,
                 !.Failed = IF Len(vals) >= 2 THEN vals[2] ELSE @,
                 !.Total = IF Len(vals) >= 3 THEN vals[1] + vals[2] ELSE @,
                 !.SecondsSpent = IF Len(vals) >= 4 THEN vals[4] ELSE @]

\* The values a scan stored, in the Response: the fields of the arguments
\* the scan did not reach keep their zero value.
storeScanned(resp, vals) ==
    [resp EXCEPT !.Processed = IF Len(vals) >= 1 THEN vals[1] ELSE @,
                 !.Failed = IF Len(vals) >= 2 THEN vals[2] ELSE @,
                 !.Total = IF Len(vals) >= 3 THEN vals[3] ELSE @,
                 !.SecondsSpent = IF Len(vals) >= 4 THEN vals[4] ELSE @]

\* Lines 160-174: the payload decoded, then the info string scanned.
decodeResponse(dataBuf, pos) ==
    The({
        IF u.err # NoErr THEN parseFailed(Errorf("unmarshal response", u.err), pos)
        ELSE The({
                CASE sc.err # "" ->
                        parseFailed(Errorf("parse response info", Foreign(sc.err, FALSE)), pos)
                  [] sc.n # 4 ->
                        parseFailed(NewError("unexpected scan result count in parsing response"), pos)
                  [] OTHER -> [resp |-> storeScanned(u.resp, sc.vals), isNil |-> FALSE,
                               err |-> NoErr, consumed |-> pos]
                : sc \in {Sscanf(u.resp.Info, infoFormat, <<"int", "int", "int", "float64">>)}})
        : u \in {Unmarshal(dataBuf)}})

\* The payload read with the reserved field counted into its length.
readPayloadLength64(r, h) ==
    The({
        IF p.err # NoErr THEN parseFailed(Errorf("read response data", p.err), p.pos)
        ELSE decodeResponse(p.data, p.pos)
        : p \in {ReadFull(r, h.pos,
                          Uint32(SubSeq(h.data, dataLenOffset + 1, dataLenOffset + dataLenLen))
                          + 65536 * Uint32(SubSeq(h.data, dataLenOffset + dataLenLen + 1, headerLen)))}})

\* Lines 154-158: the payload read after the header h, and decoded.
readPayload(r, h) ==
    The({
        IF p.err # NoErr THEN parseFailed(Errorf("read response data", p.err), p.pos)
        ELSE decodeResponse(p.data, p.pos)
        : p \in {ReadFull(r, h.pos,
                          Uint32(SubSeq(h.data, dataLenOffset + 1, dataLenOffset + dataLenLen)))}})

\* parseResponse with the flag compared before the magic.
parseResponseFlagFirst(r) ==
    The({
        CASE h.err # NoErr -> parseFailed(Errorf("read response header", h.err), h.pos)
          [] ~hasFlag(h.data) -> parseFailed(NewError("unsupported response protocol flag"), h.pos)
          [] ~hasProtocol(h.data) -> parseFailed(NewError("unexpected response protocol"), h.pos)
          [] OTHER -> readPayload(r, h)
        : h \in {ReadFull(r, 0, headerLen)}})

\* Lines 141-175: func parseResponse(r io.Reader) (*Response, error)
parseResponse(r) ==
    The({
        CASE h.err # NoErr -> parseFailed(Errorf("read response header", h.err), h.pos)
          [] ~hasProtocol(h.data) -> parseFailed(NewError("unexpected response protocol"), h.pos)
          [] ~hasFlag(h.data) -> parseFailed(NewError("unsupported response protocol flag"), h.pos)
          [] OTHER -> readPayload(r, h)
        : h \in {ReadFull(r, 0, headerLen)}})

\* r.Response == "success" alone.
IsSucccessByStatus(r) == r.Response = Bytes(<<"s", "u", "c", "c", "e", "s", "s">>)

\* func (r *Response) IsSucccess() bool
IsSucccess(r) == r.Response = Bytes(<<"s", "u", "c", "c", "e", "s", "s">>) /\ r.Failed = 0


(***************************************************************************)
(* Bounds and inputs: the senders, the batches of samples and the server's *)
(* replies a behaviour draws from.                                         *)
(***************************************************************************)

\* The clock runs from 0 to MaxTime.
MaxTime == 3

\* Sender.Timeout is 0..MaxTimeout ticks.
MaxTimeout == 2

\* A batch holds at most MaxSamples samples.
MaxSamples == 2

Senders ==
    {[ServerAddress |-> a, Timeout |-> t] :
        a \in {Bytes(<<"z", "b", "x">>), Bytes(<<"z", "b", "x", ":", "1", "2", "3", "4">>)}, t \in 0..MaxTimeout}

\* A string of n bytes 'a'.
Pad(n) == IF n = 0 THEN <<>> ELSE <<[unit |-> <<97>>, n |-> n]>>

Sample(host, key, value) == [Host |-> host, Key |-> key, Value |-> value]

TestSample == Sample(Lit(<<"w", "e", "b", "1">>), Lit(<<"c", "p", "u">>), Lit(<<"0", ".", "5">>))

Samples ==
    {TestSample,
     Sample(Lit(<<"d", "b", " ", "\"", "a", "\"">>), Lit(<<"k", "\\", "<", "1", ">">>), Runs(<<10, 255>>) \o Pad(3))}

Slice(elems) == [isNil |-> FALSE, elems |-> elems]

NilSlice == [isNil |-> TRUE, elems |-> <<>>]

RECURSIVE SeqsUpTo(_, _)
SeqsUpTo(S, n) ==
    IF n = 0 THEN {<<>>}
    ELSE LET shorter == SeqsUpTo(S, n - 1) IN
         shorter \cup {Append(q, e) : q \in {p \in shorter : Len(p) = n - 1}, e \in S}

\* The samples cmd/zabbixsend builds (main.go, lines 46-54): the composite
\* literal names the fields Clock and Ns, which are zero when no time is
\* given.  TrapperData has no such fields: what the package encodes of a
\* sample is its Host, Key and Value.
StampedSample(clock, ns) ==
    [Host |-> Lit(<<"w", "e", "b", "1">>), Key |-> Lit(<<"c", "p", "u">>), Value |-> Lit(<<"0", ".", "5">>),
     Clock |-> clock, Ns |-> ns]

StampedSamples ==
    {StampedSample(0, 0), StampedSample(1700000000, 5), StampedSample(1700000001, 0)}

StampedBatches == {Slice(q) : q \in SeqsUpTo(StampedSamples, MaxSamples)}

\* Server addresses: a name and IP addresses of both families, each with
\* and without a port, and a name with an empty port.
Addresses ==
    {Bytes(<<"z", "b", "x">>),
     Bytes(<<"z", "b", "x", ":", "1", "2", "3", "4">>),
     Bytes(<<"1", "0", ".", "0", ".", "0", ".", "1">>),
     Bytes(<<"1", "0", ".", "0", ".", "0", ".", "1", ":", "1", "0", "0", "5", "1">>),
     Bytes(<<"z", "b", "x", ":">>),
     Bytes(<<":", ":", "1">>),
     Bytes(<<"[", ":", ":", "1", "]">>),
     Bytes(<<"[", ":", ":", "1", "]", ":", "1", "2", "3", "4">>),
     Bytes(<<"[", "f", "e", "8", "0", ":", ":", "1", "]">>)}


\* The packet size of a batch of one sample with an empty value, and the
\* batches whose single value makes the packet size nonLargePacketSizeLimit
\* + d.
BaseLen == BLen(unpatchedPacket(Slice(<<Sample(Lit(<<"h">>), Lit(<<"k">>), <<>>)>>)))

LimitBatch(d) ==
    Slice(<<Sample(Lit(<<"h">>), Lit(<<"k">>), Pad(nonLargePacketSizeLimit - BaseLen + d))>>)

Batches ==
    {NilSlice} \cup {Slice(q) : q \in SeqsUpTo(Samples, MaxSamples)}
    \cup {LimitBatch(d) : d \in {0 - 1, 0, 1}}

(***************************************************************************)
(* The server.  A reply is what the connection delivers to the read:       *)
(* reader = [stream, end], with what the server meant by it: wf says that  *)
(* the stream is a frame with header magic, flag 0x01 and the payload's    *)
(* length, whose payload is the JSON object {"response": status, "info":   *)
(* info} with info = "processed: p; failed: f; total: t; seconds spent:    *)
(* x", x being micros / 10^6 written with six decimals (the frame          *)
(* sender_test.go builds, lines 9-10).                                     *)
(***************************************************************************)

\* A number of microseconds as seconds with six decimals (C's %f).
Fixed6(micros) ==
    LET frac == Itoa(micros % 1000000) IN
    Itoa(micros \div 1000000) \o <<46>> \o [i \in 1..(6 - Len(frac)) |-> 48] \o frac

ServerInfo(p, f, t, micros) ==
    Bytes(<<"p", "r", "o", "c", "e", "s", "s", "e", "d", ":", " ">>) \o Itoa(p) \o Bytes(<<";", " ", "f", "a", "i", "l", "e", "d", ":", " ">>) \o Itoa(f)
    \o Bytes(<<";", " ", "t", "o", "t", "a", "l", ":", " ">>) \o Itoa(t) \o Bytes(<<";", " ", "s", "e", "c", "o", "n", "d", "s", " ", "s", "p", "e", "n", "t", ":", " ">>) \o Fixed6(micros)

JSONString(s) == <<34>> \o EscapeBytes(s) \o <<34>>

ServerJSON(status, info) ==
    Bytes(<<"{", "\"", "r", "e", "s", "p", "o", "n", "s", "e", "\"", ":">>) \o JSONString(status) \o Bytes(<<",", "\"", "i", "n", "f", "o", "\"", ":">>) \o JSONString(info) \o Bytes(<<"}">>)

Header(magic, flag, len, reserved) ==
    magic \o <<flag>> \o PutUint32Bytes(len) \o PutUint32Bytes(reserved)

Frame(payload) == Header(protocol, protocolFlagZabbixCommunications, Len(payload), 0) \o payload

\* A reply that is no well-formed frame, or is not delivered whole.
Malformed(stream, end) ==
    [reader |-> [stream |-> stream, end |-> end], wf |-> FALSE,
     status |-> <<>>, info |-> <<>>, p |-> 0, f |-> 0, t |-> 0, micros |-> 0]

\* A well-formed frame, delivered whole, then trailer, then end.
WellFormed(status, p, f, t, micros, reserved, trailer, end) ==
    LET info == ServerInfo(p, f, t, micros)
        payload == ServerJSON(status, info)
    IN  [reader |-> [stream |-> Header(protocol, protocolFlagZabbixCommunications,
                                       Len(payload), reserved) \o payload \o trailer,
                     end |-> end],
         wf |-> TRUE, status |-> status, info |-> info,
         p |-> p, f |-> f, t |-> t, micros |-> micros]

Statuses == {Bytes(<<"s", "u", "c", "c", "e", "s", "s">>), Bytes(<<"f", "a", "i", "l", "e", "d">>), Bytes(<<"S", "u", "c", "c", "e", "s", "s">>), Bytes(<<"a", "\"", "b", "\\", "c">>)}

Counts == {<<1, 0, 1>>, <<0, 1, 1>>, <<12, 3, 15>>, <<2, 0, 7>>, <<0, 0 - 1, 40>>}

Micros == {60753, 0, 1500000, 12000001}

WellFormedReplies ==
    {WellFormed(s, c[1], c[2], c[3], m, 0, <<>>, "EOF") : s \in Statuses, c \in Counts, m \in Micros}
    \cup {WellFormed(Bytes(<<"s", "u", "c", "c", "e", "s", "s">>), 1, 0, 1, 60753, res, tr, e) :
            res \in {0, 258}, tr \in {<<>>, Bytes(<<"Z", "B", "X", "D">>)}, e \in {"EOF", "timeout", "reset"}}

\* The payload of sender_test.go, and its frame.
TestPayload == ServerJSON(Bytes(<<"s", "u", "c", "c", "e", "s", "s">>), ServerInfo(1, 0, 1, 60753))

\* Frames whose header is wrong: the magic, the flag, the length.
BadHeaderReplies ==
    {Malformed(Header(h[1], h[2], Len(TestPayload), 0) \o TestPayload, "EOF") :
        h \in {g \in {protocol, Bytes(<<"Z", "B", "X", "d">>), Bytes(<<"H", "T", "T", "P">>),
                      Bytes(<<"z", "B", "X", "D">>)}
                     \X {protocolFlagZabbixCommunications, 0, 4, 49} :
                 g # <<protocol, protocolFlagZabbixCommunications>>}}
    \cup {Malformed(Header(protocol, protocolFlagZabbixCommunications, l, 0) \o TestPayload, e) :
            l \in {0, 1, Len(TestPayload) - 1, Len(TestPayload) + 1, 65536 + Len(TestPayload)},
            e \in {"EOF", "timeout"}}

\* Streams that end early.
TruncatedReplies ==
    {Malformed(SubSeq(s, 1, k), e) :
        s \in {Frame(TestPayload), Header(Bytes(<<"H", "T", "T", "P">>), 1, Len(TestPayload), 0) \o TestPayload,
               Header(protocol, 4, Len(TestPayload), 0) \o TestPayload},
        k \in {0, 3, 4, 5, 12, 13, 14, Len(TestPayload) + 12},
        e \in {"EOF", "timeout", "reset"}}

\* Frames whose payload is not the JSON object of a response.
BadPayloads ==
    {<<>>, Bytes(<<"n", "u", "l", "l">>), Bytes(<<"[", "]">>), Bytes(<<"{", "}">>), Bytes(<<"\"", "s", "u", "c", "c", "e", "s", "s", "\"">>), Bytes(<<"{", "\"", "r", "e", "s", "p", "o", "n", "s", "e", "\"", ":", "\"", "s", "u", "c", "c", "e", "s", "s", "\"", "}">>),
     Bytes(<<"{", "\"", "r", "e", "s", "p", "o", "n", "s", "e", "\"", ":", "\"", "s", "u", "c", "c", "e", "s", "s", "\"", ",", "\"", "i", "n", "f", "o", "\"", ":", "5", "}">>), Bytes(<<"{", "\"", "r", "e", "s", "p", "o", "n", "s", "e", "\"", ":", "n", "u", "l", "l", ",", "\"", "i", "n", "f", "o", "\"", ":", "\"", "x", "\"", "}">>),
     Bytes(<<"{", "\"", "r", "e", "s", "p", "o", "n", "s", "e", "\"", ":", "\"", "s", "u", "c", "c", "e", "s", "s", "\"", ",", "\"", "i", "n", "f", "o", "\"", ":", "\"", "p", "r", "o", "c", "e", "s", "s", "e", "d", ":", " ", "1", ";", " ", "f", "a", "i", "l", "e", "d", ":", " ", "0", ";", " ", "t", "o", "t", "a", "l", ":", " ", "1", ";", " ", "s", "e", "c", "o", "n", "d", "s", " ", "s", "p", "e", "n", "t", ":", " ", "0", ".", "5", "\"">>),
     Bytes(<<"{", "\"", "r", "e", "s", "p", "o", "n", "s", "e", "\"", ":", "\"", "s", "u", "c", "c", "e", "s", "s", "\"", ",", "\"", "i", "n", "f", "o", "\"", ":", "\"", "p", "r", "o", "c", "e", "s", "s", "e", "d", ":", " ", "1", ";", " ", "f", "a", "i", "l", "e", "d", ":", " ", "0", ";", " ", "t", "o", "t", "a", "l", ":", " ", "1", ";", " ", "s", "e", "c", "o", "n", "d", "s", " ", "s", "p", "e", "n", "t", ":", " ", "0", ".", "5", "\"", "}", "}">>),
     Bytes(<<"{", "\"", "r", "e", "s", "p", "o", "n", "s", "e", "\"", ":", "t", "r", "u", "e", ",", "\"", "i", "n", "f", "o", "\"", ":", "\"", "p", "r", "o", "c", "e", "s", "s", "e", "d", ":", " ", "1", ";", " ", "f", "a", "i", "l", "e", "d", ":", " ", "0", ";", " ", "t", "o", "t", "a", "l", ":", " ", "1", ";", " ", "s", "e", "c", "o", "n", "d", "s", " ", "s", "p", "e", "n", "t", ":", " ", "0", ".", "5", "\"", "}">>),
     Bytes(<<"{", "r", "e", "s", "p", "o", "n", "s", "e", ":", "\"", "s", "u", "c", "c", "e", "s", "s", "\"", "}">>)}

\* The info string without its last field.
ThreeValueInfo ==
    Bytes(<<"p", "r", "o", "c", "e", "s", "s", "e", "d", ":", " ", "1", ";", " ", "f", "a", "i", "l", "e", "d", ":", " ", "0", ";", " ", "t", "o", "t", "a", "l", ":", " ", "1">>)

\* Info strings from which fewer than four values can be taken: empty, the
\* last field missing, the last value missing, a middle field missing, two
\* fields missing.
IncompleteInfos ==
    {<<>>,
     ThreeValueInfo,
     Bytes(<<"p", "r", "o", "c", "e", "s", "s", "e", "d", ":", " ", "1", ";", " ", "f", "a", "i", "l", "e", "d", ":", " ", "0", ";", " ", "t", "o", "t", "a", "l", ":", " ", "1", ";", " ", "s", "e", "c", "o", "n", "d", "s", " ", "s", "p", "e", "n", "t", ":", " ">>),
     Bytes(<<"p", "r", "o", "c", "e", "s", "s", "e", "d", ":", " ", "1", ";", " ", "f", "a", "i", "l", "e", "d", ":", " ", "0", ";", " ", "s", "e", "c", "o", "n", "d", "s", " ", "s", "p", "e", "n", "t", ":", " ", "0", ".", "5">>),
     Bytes(<<"p", "r", "o", "c", "e", "s", "s", "e", "d", ":", " ", "1", ";", " ", "f", "a", "i", "l", "e", "d", ":", " ", "2">>)}

\* Info strings that are not the server's: a field missing, changed,
\* reordered, or followed by more text.
OtherInfos ==
    IncompleteInfos \cup
    {Bytes(<<"p", "r", "o", "c", "e", "s", "s", "e", "d", ":", " ", "1", ",", " ", "f", "a", "i", "l", "e", "d", ":", " ", "0", ",", " ", "t", "o", "t", "a", "l", ":", " ", "1", ",", " ", "s", "e", "c", "o", "n", "d", "s", " ", "s", "p", "e", "n", "t", ":", " ", "0", ".", "5">>),
     Bytes(<<"p", "r", "o", "c", "e", "s", "s", "e", "d", ":", "1", ";", " ", "f", "a", "i", "l", "e", "d", ":", "0", ";", " ", "t", "o", "t", "a", "l", ":", "1", ";", " ", "s", "e", "c", "o", "n", "d", "s", " ", "s", "p", "e", "n", "t", ":", "0", ".", "5">>),
     Bytes(<<"p", "r", "o", "c", "e", "s", "s", "e", "d", ":", " ", " ", "1", ";", " ", " ", "f", "a", "i", "l", "e", "d", ":", " ", " ", "0", ";", " ", " ", "t", "o", "t", "a", "l", ":", " ", " ", "1", ";", " ", " ", "s", "e", "c", "o", "n", "d", "s", " ", " ", "s", "p", "e", "n", "t", ":", " ", " ", "0", ".", "5">>),
     Bytes(<<"f", "a", "i", "l", "e", "d", ":", " ", "0", ";", " ", "p", "r", "o", "c", "e", "s", "s", "e", "d", ":", " ", "1", ";", " ", "t", "o", "t", "a", "l", ":", " ", "1", ";", " ", "s", "e", "c", "o", "n", "d", "s", " ", "s", "p", "e", "n", "t", ":", " ", "0", ".", "5">>),
     Bytes(<<"p", "r", "o", "c", "e", "s", "s", "e", "d", ":", " ", "x", ";", " ", "f", "a", "i", "l", "e", "d", ":", " ", "0", ";", " ", "t", "o", "t", "a", "l", ":", " ", "1", ";", " ", "s", "e", "c", "o", "n", "d", "s", " ", "s", "p", "e", "n", "t", ":", " ", "0", ".", "5">>),
     Bytes(<<"p", "r", "o", "c", "e", "s", "s", "e", "d", ":", " ", "1", ";", " ", "f", "a", "i", "l", "e", "d", ":", " ", "0", ";", " ", "t", "o", "t", "a", "l", ":", " ", "1", ";", " ", "s", "e", "c", "o", "n", "d", "s", " ", "s", "p", "e", "n", "t", ":", " ", "f", "a", "s", "t">>),
     Bytes(<<"p", "r", "o", "c", "e", "s", "s", "e", "d", ":", " ", "1", ";", " ", "f", "a", "i", "l", "e", "d", ":", " ", "0", ";", " ", "t", "o", "t", "a", "l", ":", " ", "1", ";", " ", "s", "e", "c", "o", "n", "d", "s", " ", "s", "p", "e", "n", "t", ":", " ", "0", ".", "5", ";", " ", "e", "x", "t", "r", "a", ":", " ", "9">>),
     Bytes(<<"P", "r", "o", "c", "e", "s", "s", "e", "d", ":", " ", "1", ";", " ", "F", "a", "i", "l", "e", "d", ":", " ", "0", ";", " ", "T", "o", "t", "a", "l", ":", " ", "1", ";", " ", "S", "e", "c", "o", "n", "d", "s", " ", "s", "p", "e", "n", "t", ":", " ", "0", ".", "5">>),
     Bytes(<<"p", "r", "o", "c", "e", "s", "s", "e", "d", ":", " ", "1", "_", "0", ";", " ", "f", "a", "i", "l", "e", "d", ":", " ", "0", ";", " ", "t", "o", "t", "a", "l", ":", " ", "1", ";", " ", "s", "e", "c", "o", "n", "d", "s", " ", "s", "p", "e", "n", "t", ":", " ", "0", ".", "5">>),
     Bytes(<<"p", "r", "o", "c", "e", "s", "s", "e", "d", ":", " ", "1", ".", "5", ";", " ", "f", "a", "i", "l", "e", "d", ":", " ", "0", ";", " ", "t", "o", "t", "a", "l", ":", " ", "1", ";", " ", "s", "e", "c", "o", "n", "d", "s", " ", "s", "p", "e", "n", "t", ":", " ", "0", ".", "5">>)}

\* Payloads that are the JSON object of a response written another way:
\* a member missing, white space, the members' order and case, members the
\* client does not know.
OtherJSONs ==
    {Bytes(<<"{", "\"", "i", "n", "f", "o", "\"", ":", "\"", "p", "r", "o", "c", "e", "s", "s", "e", "d", ":", " ", "1", ";", " ", "f", "a", "i", "l", "e", "d", ":", " ", "0", ";", " ", "t", "o", "t", "a", "l", ":", " ", "1", ";", " ", "s", "e", "c", "o", "n", "d", "s", " ", "s", "p", "e", "n", "t", ":", " ", "0", ".", "5", "\"", "}">>),
     Bytes(<<" ", "{", " ", "\"", "r", "e", "s", "p", "o", "n", "s", "e", "\"", " ", ":", " ", "\"", "s", "u", "c", "c", "e", "s", "s", "\"", " ", ",", " ", "\"", "i", "n", "f", "o", "\"", " ", ":", " ", "\"", "p", "r", "o", "c", "e", "s", "s", "e", "d", ":", " ", "1", ";", " ", "f", "a", "i", "l", "e", "d", ":", " ", "0", ";", " ", "t", "o", "t", "a", "l", ":", " ", "1", ";", " ", "s", "e", "c", "o", "n", "d", "s", " ", "s", "p", "e", "n", "t", ":", " ", "0", ".", "5", "\"", " ", "}", " ">>),
     Bytes(<<"{", "\"", "i", "n", "f", "o", "\"", ":", "\"", "p", "r", "o", "c", "e", "s", "s", "e", "d", ":", " ", "1", ";", " ", "f", "a", "i", "l", "e", "d", ":", " ", "0", ";", " ", "t", "o", "t", "a", "l", ":", " ", "1", ";", " ", "s", "e", "c", "o", "n", "d", "s", " ", "s", "p", "e", "n", "t", ":", " ", "0", ".", "5", "\"", ",", "\"", "r", "e", "s", "p", "o", "n", "s", "e", "\"", ":", "\"", "f", "a", "i", "l", "e", "d", "\"", "}">>),
     Bytes(<<"{", "\"", "R", "e", "s", "p", "o", "n", "s", "e", "\"", ":", "\"", "s", "u", "c", "c", "e", "s", "s", "\"", ",", "\"", "I", "N", "F", "O", "\"", ":", "\"", "p", "r", "o", "c", "e", "s", "s", "e", "d", ":", " ", "1", ";", " ", "f", "a", "i", "l", "e", "d", ":", " ", "3", ";", " ", "t", "o", "t", "a", "l", ":", " ", "4", ";", " ", "s", "e", "c", "o", "n", "d", "s", " ", "s", "p", "e", "n", "t", ":", " ", "0", ".", "5", "\"", ",", "\"", "x", "\"", ":", "[", "1", ",", "{", "\"", "y", "\"", ":", "n", "u", "l", "l", "}", "]", "}">>),
     Bytes(<<"{", "\"", "r", "e", "s", "p", "o", "n", "s", "e", "\"", ":", "\"", "s", "u", "c", "c", "e", "s", "s", "\"", ",", "\"", "i", "n", "f", "o", "\"", ":", "\"", "z", "\"", ",", "\"", "i", "n", "f", "o", "\"", ":", "\"", "p", "r", "o", "c", "e", "s", "s", "e", "d", ":", " ", "1", ";", " ", "f", "a", "i", "l", "e", "d", ":", " ", "0", ";", " ", "t", "o", "t", "a", "l", ":", " ", "1", ";", " ", "s", "e", "c", "o", "n", "d", "s", " ", "s", "p", "e", "n", "t", ":", " ", "1", "e", "2", "\"", "}">>)}

OtherReplies ==
    {Malformed(Frame(p), "EOF") : p \in BadPayloads \cup OtherJSONs}
    \cup {Malformed(Frame(ServerJSON(Bytes(<<"s", "u", "c", "c", "e", "s", "s">>), i)), "EOF") : i \in OtherInfos}

Replies == WellFormedReplies \cup BadHeaderReplies \cup TruncatedReplies \cup OtherReplies

\* A few replies of each kind.
CoreReplies ==
    {WellFormed(s, 1, f, 1 + f, 60753, 0, <<>>, "EOF") :
        s \in {Bytes(<<"s", "u", "c", "c", "e", "s", "s">>), Bytes(<<"f", "a", "i", "l", "e", "d">>)},
        f \in {0, 2}}
    \cup {Malformed(SubSeq(Frame(TestPayload), 1, k), e) :
            k \in {0, 5, 20}, e \in {"EOF", "timeout", "reset"}}
    \cup {Malformed(Header(Bytes(<<"H", "T", "T", "P">>), 1, Len(TestPayload), 0) \o TestPayload, "EOF"),
          Malformed(Header(protocol, 4, Len(TestPayload), 0) \o TestPayload, "EOF"),
          Malformed(Frame(Bytes(<<"{", "}">>)), "EOF"),
          Malformed(Frame(Bytes(<<"{">>)), "EOF")}

\* buildRequestPacket(data) for every batch, and parseResponse(conn) for every
\* reply the connection may deliver: the functions are pure, and their
\* results are tabulated once.
built ==
    [data \in Batches \cup StampedBatches
               \cup {Slice(<<Sample(Lit(<<"d", "b", "1">>), Lit(<<"m", "e", "m">>), Lit(<<"7">>))>>)} |->
        buildRequestPacket(data)]

parsed == [r \in Replies \cup CoreReplies |-> parseResponse(r.reader)]

\* One reply of each outcome: a success, a failure status, silence until
\* the deadline, a stream that ends inside the header.
FewReplies ==
    {WellFormed(Bytes(<<"s", "u", "c", "c", "e", "s", "s">>), 1, 0, 1, 60753, 0, <<>>, "EOF"),
     WellFormed(Bytes(<<"f", "a", "i", "l", "e", "d">>), 1, 2, 3, 60753, 0, <<>>, "EOF"),
     Malformed(<<>>, "timeout"),
     Malformed(SubSeq(Frame(TestPayload), 1, 5), "EOF")}

RepliesOf(srv) ==
    CASE srv = "any" -> Replies
      [] srv = "few" -> FewReplies
      [] OTHER -> CoreReplies


(***************************************************************************)
(* State.  Send is a blocking call: it is modelled as the steps between    *)
(* its blocking points, each step one action, with the clock free to       *)
(* advance between them.                                                   *)
(*                                                                         *)
(*   now    the clock (time.Now()), in ticks                               *)
(*   call   for each call of Send its receiver, its argument, its locals,  *)
(*          its position pc, its result ret and a log of what it did       *)
(*   conns  every connection net.DialTimeout has opened, in order: the     *)
(*          connection's identity is its index                             *)
(*   server which replies the server may give in this behaviour            *)
(***************************************************************************)
VARIABLES now, call, conns, server

vars == <<now, call, conns, server>>

\* The zero time.Time: no deadline is set.
NoDeadline == 0 - 1

\* One entry of a call's log: what was done and whether it succeeded.
Event(op, ok) == [op |-> op, ok |-> ok, n |-> 0, len |-> 0, conn |-> 0, werr |-> NoErr]

\* The entry of a write or a read: n bytes, of len, on connection id.
EventIO(op, ok, n, len, id) ==
    [op |-> op, ok |-> ok, n |-> n, len |-> len, conn |-> id, werr |-> NoErr]

\* The entry of conn.Write(reqPacket) on connection id, which reported n and
\* err: the step is good when all len bytes went out without an error.
EventWrite(n, len, id, err) ==
    [op |-> "write", ok |-> err = NoErr /\ n = len, n |-> n, len |-> len,
     conn |-> id, werr |-> err]

\* A call of s.Send(data) that has not started.
NewCall(s, data) ==
    [pc |-> "idle", s |-> s, data |-> data, start |-> 0,
     deadline |-> NoDeadline, reqPacket |-> <<>>, addr |-> <<>>, dialStart |-> 0,
     conn |-> 0, deferred |-> <<>>,
     ret |-> [resp |-> ZeroResponse, isNil |-> TRUE, err |-> NoErr],
     checked |-> FALSE, success |-> FALSE,
     log |-> <<>>]

\* The net.Conn a successful dial returns.
NewConn(c, addr) ==
    [owner |-> c, addr |-> addr, open |-> TRUE,
     wdl |-> NoDeadline, rdl |-> NoDeadline,
     sent |-> 0, sentBy |-> 0,
     reply |-> Malformed(<<>>, "EOF"), replied |-> FALSE, consumed |-> 0,
     readBy |-> 0]

\* Whether a deadline d has passed: I/O on the connection fails with a
\* timeout instead of blocking.
Expired(d) == d # NoDeadline /\ now >= d

\* The deferred calls as a close of every connection of the process.
runDeferredOnAll(cs, deferred) ==
    IF deferred = <<>> THEN cs ELSE [i \in DOMAIN cs |-> [cs[i] EXCEPT !.open = FALSE]]

\* The deferred calls of a returning Send: conn.Close() for each connection
\* it deferred.
RECURSIVE runDeferred(_, _)
runDeferred(cs, deferred) ==
    IF deferred = <<>> THEN cs
    ELSE runDeferred([cs EXCEPT ![Head(deferred)].open = FALSE], Tail(deferred))

\* return resp, err from Send, for the call record cr and the connections cs.
Return(c, cr, cs, resp, isNil, err) ==
    /\ call' = [call EXCEPT ![c] =
                    [cr EXCEPT !.pc = "done",
                               !.ret = [resp |-> resp, isNil |-> isNil, err |-> err],
                               !.log = Append(cr.log, Event("return", err = NoErr))]]
    /\ conns' = runDeferred(cs, cr.deferred)

\* No conn.Close() deferred.
deferNothing(cr, id) == cr

\* defer conn.Close()
deferClose(cr, id) == [cr EXCEPT !.deferred = <<id>> \o @]

\* deadline := time.Now().Add(s.Timeout)
deadlineAt(start, timeout) == start + timeout

\* Line 62.
SendBegin(c) ==
    /\ call[c].pc = "idle"
    /\ call' = [call EXCEPT ![c].pc = "build",
                            ![c].start = now,
                            ![c].deadline = deadlineAt(now, call[c].s.Timeout),
                            ![c].log = Append(@, Event("begin", TRUE))]
    /\ UNCHANGED <<now, conns, server>>

\* The error of buildRequestPacket not looked at.
buildFailedIgnored(b) == FALSE

\* Lines 64-66: if err != nil { return nil, err }
buildFailed(b) == b.err # NoErr

\* Lines 63-68: the packet built, and the address normalised.
Build(c) ==
    /\ call[c].pc = "build"
    /\ LET b == built[call[c].data]
           cr == [call[c] EXCEPT !.log = Append(@, Event("build", b.err = NoErr))]
       IN  IF buildFailed(b)
           THEN Return(c, cr, conns, ZeroResponse, TRUE, b.err)
           ELSE /\ call' = [call EXCEPT ![c] =
                               [cr EXCEPT !.pc = "dial",
                                          !.reqPacket = b.packet,
                                          !.addr = addDefaultPortToAddressIfNeeded(cr.s.ServerAddress),
                                          !.dialStart = now]]
                /\ UNCHANGED conns
    /\ UNCHANGED <<now, server>>

\* Lines 69-73: net.DialTimeout("tcp", addr, s.Timeout) ends with a
\* connection, or with an error: a timeout once s.Timeout (if not zero) has
\* passed since the dial began, or a failure to connect.  There is no
\* connection to an address net.SplitHostPort rejects.
Dial(c) ==
    /\ call[c].pc = "dial"
    /\ LET timedOut == call[c].s.Timeout > 0 /\ now - call[c].dialStart >= call[c].s.Timeout
           id == Len(conns) + 1
       IN  \/ /\ ~timedOut
              /\ SplitHostPortOk(call[c].addr)
              /\ call' = [call EXCEPT ![c] =
                             deferClose([call[c] EXCEPT !.pc = "write", !.conn = id,
                                                       !.log = Append(@, Event("dial", TRUE))], id)]
              /\ conns' = Append(conns, NewConn(c, call[c].addr))
           \/ /\ ~timedOut
              /\ Return(c, [call[c] EXCEPT !.log = Append(@, Event("dial", FALSE))], conns,
                        ZeroResponse, TRUE, Foreign("dial tcp: connect: connection refused", FALSE))
           \/ /\ timedOut
              /\ Return(c, [call[c] EXCEPT !.log = Append(@, Event("dial", FALSE))], conns,
                        ZeroResponse, TRUE, Foreign("dial tcp: i/o timeout", TRUE))
    /\ UNCHANGED <<now, server>>

\* conn.SetWriteDeadline(t) and conn.SetReadDeadline(t), when they succeed.
SetWriteDeadline(cs, id, t) == [cs EXCEPT ![id].wdl = t]

SetReadDeadline(cs, id, t) == [cs EXCEPT ![id].rdl = t]

\* Line 75: the time Send passes to conn.SetWriteDeadline.
writeDeadline(cr) == cr.deadline

\* A read deadline of s.Timeout from the moment it is set.
readDeadlineFresh(cr) == now + cr.s.Timeout

\* Line 87: the time Send passes to conn.SetReadDeadline.
readDeadline(cr) == cr.deadline

\* The byte counts a write that does not complete may report.
PartialWrites(len) == {n \in {0, 1, headerLen, len - 1} : n >= 0 /\ n < len}

\* No check of n.
shortWriteUnchecked(n, len) == FALSE

\* A check of n that sees an empty write only.
shortWriteIfNothingWritten(n, len) == n = 0 /\ len > 0

\* n < len(reqPacket)
shortWrite(n, len) == n < len

\* Lines 75-85: the write deadline set, and the packet written.  conn.Write
\* reports n bytes and an error: all bytes and no error; fewer bytes with
\* the connection's failure, or with a timeout once the write deadline has
\* passed; or, for a transport that breaks io.Writer's contract, fewer
\* bytes and no error.
Write(c) ==
    /\ call[c].pc = "write"
    /\ LET id == call[c].conn
           len == BLen(call[c].reqPacket)
       IN  \/ \* conn.SetWriteDeadline(deadline) fails
              Return(c, [call[c] EXCEPT !.log = Append(@, Event("setWriteDeadline", FALSE))], conns,
                     ZeroResponse, TRUE, Foreign("set tcp: use of closed network connection", FALSE))
           \/ \E n \in PartialWrites(len) \cup {len} :
              \E cause \in {"nil", "reset", "timeout"} :
                 LET cs  == SetWriteDeadline(conns, id, writeDeadline(call[c]))
                     err == CASE cause = "nil" -> NoErr
                              [] cause = "reset" -> Foreign("write tcp: connection reset by peer", FALSE)
                              [] cause = "timeout" -> Foreign("write tcp: i/o timeout", TRUE)
                     cr  == [call[c] EXCEPT
                                !.log = @ \o <<Event("setWriteDeadline", TRUE),
                                               EventWrite(n, len, id, err)>>]
                     cw  == [cs EXCEPT ![id].sent = @ + n, ![id].sentBy = c]
                 IN  /\ (cause = "timeout") <=> Expired(cs[id].wdl)
                     /\ n = len => cause = "nil"
                     /\ IF err # NoErr
                        THEN Return(c, cr, cw, ZeroResponse, TRUE, Errorf("send request packet", err))
                        ELSE IF shortWrite(n, len)
                        THEN Return(c, cr, cw, ZeroResponse, TRUE,
                                    NewError("short write for sending request packet"))
                        ELSE /\ call' = [call EXCEPT ![c] = [cr EXCEPT !.pc = "read"]]
                             /\ conns' = cw
    /\ UNCHANGED <<now, server>>

\* Line 90 as "an unsuccessful response is an error": for a Response that
\* is not IsSucccess, nil and an error.
returnParsedIfSuccess(c, id, r, out) ==
    LET res == IF out.isNil \/ IsSucccess(out.resp) THEN out
               ELSE [out EXCEPT !.resp = ZeroResponse, !.isNil = TRUE,
                                !.err = NewError("send failed")]
        cs  == SetReadDeadline(conns, id, readDeadline(call[c]))
        cr  == [call[c] EXCEPT
                   !.log = @ \o <<Event("setReadDeadline", TRUE),
                                  EventIO("read", out.err = NoErr, out.consumed, 0, id)>>]
        cd  == [cs EXCEPT ![id].reply = r, ![id].replied = TRUE,
                          ![id].consumed = out.consumed, ![id].readBy = c]
    IN  /\ (out.err.cause = "i/o timeout") <=> Expired(cs[id].rdl)
        /\ Return(c, cr, cd, res.resp, res.isNil, res.err)

\* Line 90, return parseResponse(conn): out is what parseResponse returns
\* for the reply r that connection id delivers.  The read ends in a timeout
\* exactly when the read deadline has passed.
returnParsed(c, id, r, out) ==
    LET cs  == SetReadDeadline(conns, id, readDeadline(call[c]))
        cr  == [call[c] EXCEPT
                   !.log = @ \o <<Event("setReadDeadline", TRUE),
                                  EventIO("read", out.err = NoErr, out.consumed, 0, id)>>]
        cd  == [cs EXCEPT ![id].reply = r, ![id].replied = TRUE,
                          ![id].consumed = out.consumed, ![id].readBy = c]
    IN  /\ (out.err.cause = "i/o timeout") <=> Expired(cs[id].rdl)
        /\ Return(c, cr, cd, out.resp, out.isNil, out.err)

\* Lines 87-90: the read deadline set, and the response parsed from the
\* connection.  What the connection delivers is the server's reply r.
Receive(c) ==
    /\ call[c].pc = "read"
    /\ \/ \* conn.SetReadDeadline(deadline) fails
          Return(c, [call[c] EXCEPT !.log = Append(@, Event("setReadDeadline", FALSE))], conns,
                 ZeroResponse, TRUE, Foreign("set tcp: use of closed network connection", FALSE))
       \/ \E r \in RepliesOf(server) : returnParsed(c, call[c].conn, r, parsed[r])
    /\ UNCHANGED <<now, server>>

\* The caller asks the returned Response whether the send succeeded
\* (sender_test.go, lines 15-17).
CheckSuccess(c) ==
    /\ call[c].pc = "done"
    /\ ~call[c].ret.isNil
    /\ ~call[c].checked
    /\ call' = [call EXCEPT ![c].checked = TRUE, ![c].success = IsSucccess(call[c].ret.resp)]
    /\ UNCHANGED <<now, conns, server>>

\* The clock advances.
Tick ==
    /\ now < MaxTime
    /\ \E c \in DOMAIN call : call[c].pc # "done"
    /\ now' = now + 1
    /\ UNCHANGED <<call, conns, server>>

\* One call of Send, for every sender and every batch, to a server that
\* gives one of CoreReplies.
Init ==
    /\ now = 0
    /\ call \in [{1} -> {NewCall(s, data) : s \in Senders, data \in Batches}]
    /\ conns = <<>>
    /\ server = "core"

\* One call of Send with the sample of sender_test.go, to a server that
\* gives any of Replies.
InitAnyReply ==
    /\ now = 0
    /\ call \in [{1} -> {NewCall(s, Slice(<<TestSample>>)) : s \in Senders}]
    /\ conns = <<>>
    /\ server = "any"

Next ==
    \/ \E c \in DOMAIN call : SendBegin(c)
    \/ \E c \in DOMAIN call : Build(c)
    \/ \E c \in DOMAIN call : Dial(c)
    \/ \E c \in DOMAIN call : Write(c)
    \/ \E c \in DOMAIN call : Receive(c)
    \/ \E c \in DOMAIN call : CheckSuccess(c)
    \/ Tick

Spec == Init /\ [][Next]_vars

ParseSpec == InitAnyReply /\ [][Next]_vars

\* One call of Send with the sample of sender_test.go, for every address of
\* Addresses.
InitAnyAddress ==
    /\ now = 0
    /\ call \in [{1} -> {NewCall([ServerAddress |-> a, Timeout |-> MaxTimeout],
                                 Slice(<<TestSample>>)) : a \in Addresses}]
    /\ conns = <<>>
    /\ server = "core"

AddrSpec == InitAnyAddress /\ [][Next]_vars

\* One call of Send for every batch of the samples cmd/zabbixsend builds.
InitStamped ==
    /\ now = 0
    /\ call \in [{1} -> {NewCall([ServerAddress |-> Bytes(<<"z", "b", "x">>), Timeout |-> MaxTimeout], data) :
                             data \in StampedBatches}]
    /\ conns = <<>>
    /\ server = "core"

StampSpec == InitStamped /\ [][Next]_vars

\* Two concurrent calls of Send, each with its own Sender and its own
\* samples, to a server that gives one of FewReplies to each.
InitTwoCalls ==
    /\ now = 0
    /\ call = [c \in {1, 2} |->
                  IF c = 1
                  THEN NewCall([ServerAddress |-> Bytes(<<"z", "b", "x">>), Timeout |-> MaxTimeout],
                               Slice(<<TestSample>>))
                  ELSE NewCall([ServerAddress |-> Bytes(<<"z", "b", "x", ":", "1", "2", "3", "4">>), Timeout |-> 1],
                               Slice(<<Sample(Lit(<<"d", "b", "1">>), Lit(<<"m", "e", "m">>), Lit(<<"7">>))>>))]
    /\ conns = <<>>
    /\ server = "few"

TwoCallsSpec == InitTwoCalls /\ [][Next]_vars

\* Send is sequential code whose blocking calls (the dial, the write, the
\* reads) end at the latest when their timeout or deadline passes: a call
\* that can take a step takes one.
FairSpec == Spec /\ WF_vars(Next)

(***************************************************************************)
(* Properties of the request packet                                        *)
(***************************************************************************)

\* The positions of the entries of call c's log that record operation op.
Ops(c, op) == {k \in DOMAIN call[c].log : call[c].log[k].op = op}

\* The result of the call that owns connection i.
RetOf(i) == call[conns[i].owner].ret

\* C1: every packet buildRequestPacket returns, for a batch of any length,
\* starts with a header of exactly 13 bytes (the magic "ZBXD", the flag
\* 0x01, a 4-byte little-endian length, a 4-byte reserved field of zero),
\* and the length field is the number of bytes that follow the header.
C1_HeaderAndLength ==
    \A c \in DOMAIN call :
        call[c].reqPacket # <<>> =>
            LET h == Prefix(call[c].reqPacket, 13) IN
            /\ BLen(call[c].reqPacket) >= 13
            /\ SubSeq(h, 1, 4) = Bytes(<<"Z", "B", "X", "D">>)
            /\ h[5] = 1
            /\ h[6] + 256 * h[7] + 65536 * h[8] + 16777216 * h[9]
                   = BLen(call[c].reqPacket) - 13
            /\ SubSeq(h, 10, 13) = <<0, 0, 0, 0>>

\* A packet has been built for the empty batch.
C1_EmptyBatchBuilt ==
    \E c \in DOMAIN call :
        /\ call[c].data = Slice(<<>>)
        /\ call[c].pc = "dial"
        /\ BLen(call[c].reqPacket) > 13

\* The size of the packet of a batch: the 13-byte header and the payload.
TotalSize(data) == 13 + BLen(encodeRequest([Request |-> requestType, Data |-> data]))

\* C5: buildRequestPacket returns ErrRequestPacketSizeLimitExeeded and no
\* packet when header plus payload are more than 1 GiB, and a packet of
\* that size with no error when they are at most 1 GiB.
C5_SizeLimit ==
    \A c \in DOMAIN call :
        call[c].pc \notin {"idle", "build"} =>
            IF TotalSize(call[c].data) > 1024 * 1024 * 1024
            THEN /\ call[c].pc = "done"
                 /\ call[c].ret.isNil
                 /\ call[c].ret.err = ErrRequestPacketSizeLimitExeeded
                 /\ call[c].reqPacket = <<>>
            ELSE /\ call[c].reqPacket # <<>>
                 /\ BLen(call[c].reqPacket) = TotalSize(call[c].data)
                 /\ call[c].ret.err # ErrRequestPacketSizeLimitExeeded

\* A packet of exactly 1 GiB has been built.
C5_PacketOfOneGiB ==
    \E c \in DOMAIN call :
        /\ call[c].data = LimitBatch(0)
        /\ call[c].pc = "dial"
        /\ BLen(call[c].reqPacket) = 1024 * 1024 * 1024

(***************************************************************************)
(* Properties of Send                                                      *)
(***************************************************************************)

\* C2: a call never has more than one connection, and every connection a
\* call opened is closed once the call has returned, whatever the path it
\* returned by.
C2_ConnectionClosed ==
    \A c \in DOMAIN call :
        LET owned == {i \in DOMAIN conns : conns[i].owner = c} IN
        /\ Cardinality(owned) <= 1
        /\ owned \subseteq {call[c].conn}
        /\ call[c].pc = "done" => \A i \in owned : ~conns[i].open

\* A call has returned after a short write on its connection, which is closed.
C2_ClosedAfterShortWrite ==
    \E c \in DOMAIN call :
        /\ call[c].pc = "done"
        /\ call[c].conn \in DOMAIN conns
        /\ ~conns[call[c].conn].open
        /\ call[c].ret.err = NewError("short write for sending request packet")

\* What C3 says of every state: one dial at most, one write and one read at
\* most, the read only after the write of the whole packet on the same
\* connection, nothing but the return after a step that failed, and a
\* call that has returned has a Response or an error, not both.
C3_OneRoundTrip ==
    \A c \in DOMAIN call :
        /\ Cardinality(Ops(c, "dial")) <= 1
        /\ Cardinality(Ops(c, "write")) <= 1
        /\ Cardinality(Ops(c, "read")) <= 1
        /\ \A r \in Ops(c, "read") : \E w \in Ops(c, "write") :
              /\ w < r
              /\ call[c].log[w].ok
              /\ call[c].log[w].n = BLen(call[c].reqPacket)
              /\ call[c].log[w].conn = call[c].log[r].conn
        /\ \A k \in DOMAIN call[c].log :
              (~call[c].log[k].ok /\ call[c].log[k].op # "return") =>
                  \A j \in (k + 1)..Len(call[c].log) : call[c].log[j].op = "return"
        /\ call[c].pc = "done" =>
              /\ Cardinality(Ops(c, "return")) = 1
              /\ call[c].ret.isNil <=> call[c].ret.err # NoErr

\* C3: a call makes at most one connection attempt and does nothing but
\* return after a failure; on its connection it writes at most once and
\* then reads at most once, the read never before the whole packet is
\* written; and the call always ends, with a Response or with an error.
C3_SingleAttemptAndEnds ==
    /\ []C3_OneRoundTrip
    /\ <>(\A c \in DOMAIN call : call[c].pc = "done")

\* A call has returned a Response after one write and one read.
C3_RoundTripDone ==
    \E c \in DOMAIN call :
        /\ call[c].pc = "done"
        /\ ~call[c].ret.isNil
        /\ Ops(c, "write") # {}
        /\ Ops(c, "read") # {}

\* The deadlines of every connection are not set, or are the time its call
\* began plus the Timeout; a read deadline is the write deadline.
C4_OneDeadline ==
    \A i \in DOMAIN conns :
        LET d == call[conns[i].owner].start + call[conns[i].owner].s.Timeout IN
        /\ conns[i].wdl \in {NoDeadline, d}
        /\ conns[i].rdl \in {NoDeadline, d}
        /\ conns[i].rdl # NoDeadline => conns[i].wdl = conns[i].rdl

\* A step in which a write or a read succeeds is taken before the time the
\* call began plus the Timeout.
C4_WithinDeadline ==
    \A c \in DOMAIN call :
        \A k \in (Len(call[c].log) + 1)..Len(call'[c].log) :
            (call'[c].log[k].op \in {"write", "read"} /\ call'[c].log[k].ok) =>
                now < call[c].start + call[c].s.Timeout

\* C4: the deadline is the time at the start of the call plus Timeout,
\* computed once; that value is the write deadline and the read deadline,
\* never a timeout started afresh, so that no write and no read succeeds
\* after that instant.
C4_SingleAbsoluteDeadline == []C4_OneDeadline /\ [][C4_WithinDeadline]_vars

\* A Response has been read under the deadline of the call, after the
\* clock has advanced since the call began.
C4_ReadUnderCallDeadline ==
    \E i \in DOMAIN conns :
        /\ conns[i].replied
        /\ ~RetOf(i).isNil
        /\ now > call[conns[i].owner].start
        /\ conns[i].rdl = call[conns[i].owner].start + call[conns[i].owner].s.Timeout

\* The steps of Send that can fail.
FailingOps == {"build", "dial", "setWriteDeadline", "write", "setReadDeadline", "read"}

\* C9: Send returns a Response and a nil error when the reply is a
\* well-formed frame, whatever its status and failed count; it returns an
\* error only when building the packet, the dial, setting a deadline, the
\* write or reading and parsing the response failed.
C9_ErrorsOnlyForFailures ==
    /\ \A i \in DOMAIN conns :
          (conns[i].replied /\ conns[i].reply.wf) =>
              RetOf(i).err = NoErr /\ ~RetOf(i).isNil
    /\ \A c \in DOMAIN call :
          call[c].pc = "done" =>
              (call[c].ret.err # NoErr <=>
                  \E k \in DOMAIN call[c].log :
                      call[c].log[k].op \in FailingOps /\ ~call[c].log[k].ok)

\* Send has returned a Response with a nil error for a reply of status
\* "failed" with a failed count of 2.
C9_FailedStatusReturned ==
    \E i \in DOMAIN conns :
        /\ conns[i].replied
        /\ conns[i].reply.wf
        /\ conns[i].reply.status = Bytes(<<"f", "a", "i", "l", "e", "d">>)
        /\ conns[i].reply.f = 2
        /\ RetOf(i).err = NoErr
        /\ RetOf(i).resp.Failed = 2

(***************************************************************************)
(* Properties of parseResponse and IsSucccess                              *)
(***************************************************************************)

\* parseResponse returned nil and errors.New(m) for the reply of connection
\* i, having consumed the 13 bytes of the header.
RejectedAfterHeader(i, m) ==
    /\ RetOf(i).isNil
    /\ RetOf(i).err = NewError(m)
    /\ conns[i].consumed = 13

\* The stream s, which has at least n bytes, has a wrong magic.
WrongMagic(s, n) == Len(s) >= n /\ SubSeq(s, 1, 4) # Bytes(<<"Z", "B", "X", "D">>)

\* The stream s, which has at least n bytes, has the magic and a wrong flag.
WrongFlag(s, n) ==
    Len(s) >= n /\ SubSeq(s, 1, 4) = Bytes(<<"Z", "B", "X", "D">>) /\ s[5] # 1

\* C6, as stated: every stream whose first 4 bytes are not "ZBXD" is
\* rejected with the unexpected-protocol error, every stream with the magic
\* and a 5th byte other than 0x01 with the unsupported-flag error, and
\* exactly the 13 header bytes have been consumed.
C6_AnyStreamRejectedByHeader ==
    \A i \in DOMAIN conns :
        conns[i].replied =>
            /\ WrongMagic(conns[i].reply.reader.stream, 4) =>
                  RejectedAfterHeader(i, "unexpected response protocol")
            /\ WrongFlag(conns[i].reply.reader.stream, 5) =>
                  RejectedAfterHeader(i, "unsupported response protocol flag")

\* C6, amended: every stream that delivers at least 13 bytes and whose
\* first 4 bytes are not "ZBXD" is rejected with the unexpected-protocol
\* error, every such stream with the magic and a 5th byte other than 0x01
\* with the unsupported-flag error, and exactly the 13 header bytes have
\* been consumed.
C6_WholeHeaderRejected ==
    \A i \in DOMAIN conns :
        conns[i].replied =>
            /\ WrongMagic(conns[i].reply.reader.stream, 13) =>
                  RejectedAfterHeader(i, "unexpected response protocol")
            /\ WrongFlag(conns[i].reply.reader.stream, 13) =>
                  RejectedAfterHeader(i, "unsupported response protocol flag")

\* A frame with a wrong flag and a payload has been rejected, 13 bytes
\* consumed.
C6_WrongFlagRejected ==
    \E i \in DOMAIN conns :
        /\ conns[i].replied
        /\ WrongFlag(conns[i].reply.reader.stream, 14)
        /\ RejectedAfterHeader(i, "unsupported response protocol flag")

\* C7: for a valid header followed by the JSON object of status s and info
\* "processed: p; failed: f; total: t; seconds spent: x", parseResponse
\* returns no error and a Response with Response = s, Info the info
\* string, Processed = p, Failed = f, Total = t and SecondsSpent = x.
C7_FieldsInOrder ==
    \A i \in DOMAIN conns :
        (conns[i].replied /\ conns[i].reply.wf) =>
            /\ RetOf(i).err = NoErr
            /\ ~RetOf(i).isNil
            /\ RetOf(i).resp.Response = conns[i].reply.status
            /\ RetOf(i).resp.Info = conns[i].reply.info
            /\ RetOf(i).resp.Processed = conns[i].reply.p
            /\ RetOf(i).resp.Failed = conns[i].reply.f
            /\ RetOf(i).resp.Total = conns[i].reply.t
            /\ RetOf(i).resp.SecondsSpent = Normal(FALSE, conns[i].reply.micros, 0 - 6)

\* A reply with four different values has been parsed.
C7_DistinctValuesParsed ==
    \E i \in DOMAIN conns :
        /\ conns[i].replied
        /\ conns[i].reply.wf
        /\ RetOf(i).resp.Processed = 12
        /\ RetOf(i).resp.Failed = 3
        /\ RetOf(i).resp.Total = 15
        /\ RetOf(i).resp.SecondsSpent = Normal(FALSE, 15, 0 - 1)

\* The four values of resp.Info are all there, and are the Response's.
FullyPopulated(resp) ==
    LET sc == Sscanf(resp.Info, infoFormat, <<"int", "int", "int", "float64">>) IN
    /\ sc.err = ""
    /\ sc.n = 4
    /\ sc.vals = <<resp.Processed, resp.Failed, resp.Total, resp.SecondsSpent>>

\* The reply of connection i is a frame whose info string lacks values.
IncompleteInfoReply(i) ==
    \E info \in IncompleteInfos :
        conns[i].reply.reader.stream
            = Frame(ServerJSON(Bytes(<<"s", "u", "c", "c", "e", "s", "s">>), info))

\* C8: parseResponse returns a Response with all four values and a nil
\* error, or nil and an error; for an info string from which fewer than
\* four values can be taken it returns nil and an error.
C8_ResponseOrError ==
    \A i \in DOMAIN conns :
        conns[i].replied =>
            /\ \/ RetOf(i).isNil /\ RetOf(i).err # NoErr /\ RetOf(i).resp = ZeroResponse
               \/ ~RetOf(i).isNil /\ RetOf(i).err = NoErr /\ FullyPopulated(RetOf(i).resp)
            /\ IncompleteInfoReply(i) => RetOf(i).isNil /\ RetOf(i).err # NoErr

\* An info string with three of the four values has given nil and the
\* error of the scan.
C8_MissingFieldRejected ==
    \E i \in DOMAIN conns :
        /\ conns[i].replied
        /\ conns[i].reply.reader.stream
               = Frame(ServerJSON(Bytes(<<"s", "u", "c", "c", "e", "s", "s">>), ThreeValueInfo))
        /\ RetOf(i).isNil
        /\ RetOf(i).err = Errorf("parse response info", Foreign("unexpected EOF", FALSE))

\* C10: IsSucccess() is true exactly when Response is "success" and Failed
\* is 0, whatever Processed, Total, SecondsSpent and Info are.
C10_SuccessIffStatusAndNoFailure ==
    \A c \in DOMAIN call :
        call[c].checked =>
            (call[c].success <=>
                /\ call[c].ret.resp.Response = <<115, 117, 99, 99, 101, 115, 115>>
                /\ call[c].ret.resp.Failed = 0)

\* IsSucccess() has answered true for a Response whose Processed and Total
\* differ.
C10_SuccessChecked ==
    \E c \in DOMAIN call :
        /\ call[c].checked
        /\ call[c].success
        /\ call[c].ret.resp.Processed = 2
        /\ call[c].ret.resp.Total = 7

(***************************************************************************)
(* Properties of the address                                               *)
(***************************************************************************)

\* The address a ends in a port: it has one colon only, or it begins with a
\* bracketed host whose "]" is right before its last colon.
HasPort(a) ==
    /\ Positions(a, 58) # {}
    /\ IF a[1] = 91
       THEN Max(Positions(a, 58)) > 1 /\ a[Max(Positions(a, 58)) - 1] = 93
       ELSE Cardinality(Positions(a, 58)) = 1

\* The address a, which has no port, with the port 10051: a host that is
\* an IPv6 address is written in brackets, once.
WithDefaultPort(a) ==
    IF a # <<>> /\ a[1] = 91 /\ a[Len(a)] = 93 THEN a \o Bytes(<<":", "1", "0", "0", "5", "1">>)
    ELSE IF Positions(a, 58) # {} THEN <<91>> \o a \o <<93>> \o Bytes(<<":", "1", "0", "0", "5", "1">>)
    ELSE a \o Bytes(<<":", "1", "0", "0", "5", "1">>)

\* C11: the address Send dials is the server address with the default port
\* 10051 appended when it has no port, and the server address unchanged
\* when it has a port.
C11_DefaultPortAppended ==
    /\ \A c \in DOMAIN call :
          call[c].pc \in {"dial", "write", "read"} =>
              call[c].addr = IF HasPort(call[c].s.ServerAddress)
                             THEN call[c].s.ServerAddress
                             ELSE WithDefaultPort(call[c].s.ServerAddress)
    /\ \A i \in DOMAIN conns : conns[i].addr = call[conns[i].owner].addr

(***************************************************************************)
(* Properties of the request's JSON                                        *)
(***************************************************************************)

\* The JSON object of sample d: host, key and value, and clock and ns when
\* the timestamp of d is set.
ObjectWithTimestamp(d) ==
    Lit(<<"{", "\"", "h", "o", "s", "t", "\"", ":">>) \o encodeString(d.Host)
    \o Lit(<<",", "\"", "k", "e", "y", "\"", ":">>) \o encodeString(d.Key)
    \o Lit(<<",", "\"", "v", "a", "l", "u", "e", "\"", ":">>) \o encodeString(d.Value)
    \o (IF d.Clock # 0 \/ d.Ns # 0
        THEN Lit(<<",", "\"", "c", "l", "o", "c", "k", "\"", ":">>) \o Runs(Itoa(d.Clock))
             \o Lit(<<",", "\"", "n", "s", "\"", ":">>) \o Runs(Itoa(d.Ns))
        ELSE <<>>)
    \o Lit(<<"}">>)

\* The objects of the samples, in their order, with commas between them.
RECURSIVE ObjectsInOrder(_)
ObjectsInOrder(elems) ==
    IF elems = <<>> THEN <<>>
    ELSE ObjectWithTimestamp(Head(elems))
         \o (IF Tail(elems) = <<>> THEN <<>> ELSE Lit(<<",">>))
         \o ObjectsInOrder(Tail(elems))

\* The payload of the batch elems under the request "sender data".
PayloadWithTimestamps(elems) ==
    Lit(<<"{", "\"", "r", "e", "q", "u", "e", "s", "t", "\"", ":", "\"", "s", "e", "n", "d", "e", "r", " ", "d", "a", "t", "a", "\"", ",", "\"", "d", "a", "t", "a", "\"", ":", "[">>)
    \o ObjectsInOrder(elems) \o Lit(<<"]", "}">>) \o Runs(<<10>>)

\* A run sequence as plain bytes.
Flat(s) == Prefix(s, BLen(s))

\* C12: the packet holds, under the request "sender data", the objects of
\* the samples in the order given, each with host, key and value and, when
\* the timestamp of the sample is set, with clock and ns.
C12_TimestampFieldsEmitted ==
    \A c \in DOMAIN call :
        call[c].reqPacket # <<>> =>
            Flat(Drop(call[c].reqPacket, 13)) = Flat(PayloadWithTimestamps(call[c].data.elems))

\* C12 without the timestamps: the packet holds the objects of the samples
\* in the order given, each with host, key and value only.
StampsDropped ==
    \A c \in DOMAIN call :
        call[c].reqPacket # <<>> =>
            Flat(Drop(call[c].reqPacket, 13))
                = Flat(PayloadWithTimestamps(
                      [k \in DOMAIN call[c].data.elems |->
                          [call[c].data.elems[k] EXCEPT !.Clock = 0, !.Ns = 0]]))

(***************************************************************************)
(* Properties of the errors of Send                                        *)
(***************************************************************************)

\* Call c has returned because its step op failed.
FailedIn(c, op) ==
    /\ call[c].pc = "done"
    /\ \E k \in DOMAIN call[c].log : call[c].log[k].op = op /\ ~call[c].log[k].ok

\* Call c has returned because the timeout expired during its step op: the
\* dial took s.Timeout, or the write or the read met the deadline.  (The
\* clock stands still once the only call has returned.)
TimedOutIn(c, op) ==
    /\ FailedIn(c, op)
    /\ IF op = "dial"
       THEN call[c].s.Timeout > 0 /\ now - call[c].dialStart >= call[c].s.Timeout
       ELSE now >= call[c].deadline

\* C13: when the timeout expires during the dial, the write or the read of
\* the response, the error Send returns says that it is a timeout
\* (Timeout() is true), and the error of another failure in the same phase
\* does not.
C13_TimeoutDistinguishable ==
    \A c \in DOMAIN call : \A op \in {"dial", "write", "read"} :
        FailedIn(c, op) => (call[c].ret.err.timeout <=> TimedOutIn(c, op))

\* C13 for the dial alone.
DialTimeoutDistinguishable ==
    \A c \in DOMAIN call :
        FailedIn(c, "dial") => (call[c].ret.err.timeout <=> TimedOutIn(c, "dial"))

\* The text of the error of a write or a read that met the deadline still
\* ends in "i/o timeout", and no other error of Send does.
TimeoutTextKept ==
    \A c \in DOMAIN call : \A op \in {"write", "read"} :
        FailedIn(c, op) =>
            (call[c].ret.err.cause \in {"i/o timeout", "write tcp: i/o timeout"}
                <=> TimedOutIn(c, op))

(***************************************************************************)
(* Properties of concurrent calls                                          *)
(***************************************************************************)

\* The connections call c has opened.
OwnedBy(c) == {i \in DOMAIN conns : conns[i].owner = c}

\* Every call has at most one connection, its own; what was written to a
\* connection was written by its owner, from the packet built from the
\* owner's samples; what was read from it was read by its owner.
C14_OwnConnection ==
    /\ \A c \in DOMAIN call :
          /\ Cardinality(OwnedBy(c)) <= 1
          /\ OwnedBy(c) \subseteq {call[c].conn}
          /\ call[c].conn # 0 => call[c].conn \in OwnedBy(c)
          /\ call[c].reqPacket \in {<<>>, buildRequestPacket(call[c].data).packet}
          /\ \A k \in Ops(c, "write") \cup Ops(c, "read") : call[c].log[k].conn = call[c].conn
          /\ \A k \in Ops(c, "write") : call[c].log[k].len = BLen(call[c].reqPacket)
    /\ \A i \in DOMAIN conns :
          /\ conns[i].sentBy \in {0, conns[i].owner}
          /\ conns[i].readBy \in {0, conns[i].owner}
          /\ conns[i].sent <= BLen(call[conns[i].owner].reqPacket)
          /\ ~conns[i].open => call[conns[i].owner].pc = "done"

\* A step changes one call at most, and no connection but that call's.
C14_OtherCallsUntouched ==
    \A c \in DOMAIN call :
        call'[c] # call[c] =>
            /\ \A d \in DOMAIN call : d # c => call'[d] = call[d]
            /\ \A i \in DOMAIN conns : conns[i].owner # c => conns'[i] = conns[i]

\* What a call may do next depends on the call, its connection and the
\* clock only: a call that has not returned can take a step whatever the
\* other call has done.
C14_NeverBlockedByOther ==
    \A c \in DOMAIN call :
        call[c].pc # "done" =>
            ENABLED (SendBegin(c) \/ Build(c) \/ Dial(c) \/ Write(c) \/ Receive(c))

\* C14: in every interleaving of concurrent calls each call opens its own
\* connection, writes only its own packet to it, reads only from it and
\* closes only it, and no step of one call changes or blocks another call.
C14_CallsIndependent ==
    /\ []C14_OwnConnection
    /\ []C14_NeverBlockedByOther
    /\ [][C14_OtherCallsUntouched]_vars

\* Both calls have returned, one with a Response and one with an error,
\* each with a connection of its own, both closed.
C14_BothReturned ==
    /\ \A c \in DOMAIN call : call[c].pc = "done" /\ call[c].conn # 0
    /\ call[1].conn # call[2].conn
    /\ ~call[1].ret.isNil
    /\ call[2].ret.isNil
    /\ \A i \in DOMAIN conns : ~conns[i].open

(***************************************************************************)
(* The write that does not complete                                        *)
(***************************************************************************)

ShortWriteError == NewError("short write for sending request packet")

\* Nothing of the read of the response has happened in call c: no read
\* deadline set, no byte of a reply delivered or consumed.
NothingRead(c) ==
    /\ Ops(c, "setReadDeadline") = {}
    /\ Ops(c, "read") = {}
    /\ \A i \in OwnedBy(c) :
          /\ conns[i].rdl = NoDeadline
          /\ ~conns[i].replied
          /\ conns[i].consumed = 0
          /\ conns[i].readBy = 0

\* C15: when conn.Write reports fewer bytes than the packet has and no
\* error, Send returns the short-write error, which is not the error it
\* returns for a write that failed; and after a failed or a short write Send
\* sets no read deadline and reads no byte of a response.
C15_ShortWriteIsItsOwnError ==
    \A c \in DOMAIN call : \A k \in Ops(c, "write") :
        LET e == call[c].log[k]
        IN  (e.werr # NoErr \/ e.n < e.len) =>
                /\ call[c].pc = "done"
                /\ call[c].ret.isNil
                /\ IF e.werr = NoErr
                   THEN call[c].ret.err = ShortWriteError
                   ELSE /\ call[c].ret.err = Errorf("send request packet", e.werr)
                        /\ call[c].ret.err # ShortWriteError
                /\ NothingRead(c)

\* A write of a part of the packet that reported no error has ended the call.
C15_ShortWriteReturned ==
    \E c \in DOMAIN call : \E k \in Ops(c, "write") :
        /\ call[c].log[k].werr = NoErr
        /\ call[c].log[k].n > 0
        /\ call[c].log[k].n < call[c].log[k].len
        /\ call[c].pc = "done"
        /\ call[c].ret.err = ShortWriteError

(***************************************************************************)
(* The order of the checks of parseResponse                                *)
(***************************************************************************)

\* The length field of a stream s of 13 bytes or more.
LengthField(s) == s[6] + 256 * s[7] + 65536 * s[8] + 16777216 * s[9]

\* The checks of a response, each read off the bytes of the stream s alone.
HeaderMissing(s) == Len(s) < 13

MagicWrong(s) == SubSeq(s, 1, 4) # Bytes(<<"Z", "B", "X", "D">>)

FlagWrong(s) == s[5] # 1

PayloadMissing(s) == Len(s) - 13 < LengthField(s)

PayloadOf(s) == SubSeq(s, 14, 13 + LengthField(s))

NotJSON(s) == Unmarshal(PayloadOf(s)).err # NoErr

InfoOf(s) == Sscanf(Unmarshal(PayloadOf(s)).resp.Info, infoFormat, <<"int", "int", "int", "float64">>)

\* The message of the first check the stream s fails, in the order header
\* read, magic, flag, payload read, JSON decoding, info scan; "nil" when it
\* passes them all.
FirstFailure(s) ==
    CASE HeaderMissing(s) -> "read response header"
      [] ~HeaderMissing(s) /\ MagicWrong(s) -> "unexpected response protocol"
      [] ~HeaderMissing(s) /\ ~MagicWrong(s) /\ FlagWrong(s) -> "unsupported response protocol flag"
      [] OTHER ->
            IF PayloadMissing(s) THEN "read response data"
            ELSE IF NotJSON(s) THEN "unmarshal response"
            ELSE IF InfoOf(s).err # "" THEN "parse response info"
            ELSE IF InfoOf(s).n # 4 THEN "unexpected scan result count in parsing response"
            ELSE "nil"

\* The bytes read when the first failure of s is m: a failed check of the
\* header leaves the payload unread.
ReadUpTo(s, m) ==
    CASE m = "read response header" -> Len(s)
      [] m \in {"unexpected response protocol", "unsupported response protocol flag"} -> 13
      [] m = "read response data" -> Len(s)
      [] OTHER -> 13 + LengthField(s)

firstFailure == [r \in Replies \cup CoreReplies |-> FirstFailure(r.reader.stream)]

\* C16: parseResponse reports the first check that fails, in the order
\* header read, magic, flag, payload read, JSON decoding, info scan, whatever
\* later checks would have failed too, and reads nothing for a later check.
C16_FirstFailureReported ==
    \A i \in DOMAIN conns :
        conns[i].replied =>
            /\ RetOf(i).err.msg = firstFailure[conns[i].reply]
            /\ RetOf(i).isNil <=> firstFailure[conns[i].reply] # "nil"
            /\ conns[i].consumed =
                  ReadUpTo(conns[i].reply.reader.stream, firstFailure[conns[i].reply])

\* A stream with a wrong magic that ends inside its payload: the magic is
\* reported, not the payload; and nothing is read beyond the header.
C16_MagicBeforePayload ==
    \E i \in DOMAIN conns :
        /\ conns[i].replied
        /\ ~HeaderMissing(conns[i].reply.reader.stream)
        /\ MagicWrong(conns[i].reply.reader.stream)
        /\ PayloadMissing(conns[i].reply.reader.stream)
        /\ RetOf(i).err = NewError("unexpected response protocol")
        /\ conns[i].consumed = 13

(***************************************************************************)
(* The template of the info string                                         *)
(***************************************************************************)

\* The position after the literal lit at position i of s; 0 when i is 0 or
\* s does not continue with lit.
LitEnd(s, i, lit) ==
    IF i > 0 /\ i + Len(lit) - 1 <= Len(s) /\ SubSeq(s, i, i + Len(lit) - 1) = lit
    THEN i + Len(lit) ELSE 0

\* The position after the digits at position i of s; 0 when there is none.
DigitsEnd(s, i) ==
    IF i > 0 /\ acceptAll(s, i, 48..57) > i THEN acceptAll(s, i, 48..57) ELSE 0

\* The position after an <int> at position i: a minus sign or none, digits.
IntEnd(s, i) == IF i > 0 THEN DigitsEnd(s, accept(s, i, {45})) ELSE 0

\* The position after a <float> at position i: an <int>, then a point and
\* digits or neither, then an exponent or none.
FloatEnd(s, i) ==
    LET d == IntEnd(s, i)
        f == IF d > 0 /\ accept(s, d, {46}) > d THEN DigitsEnd(s, d + 1) ELSE d
    IN  IF f > 0 /\ accept(s, f, {101}) > f THEN IntEnd(s, f + 1) ELSE f

\* s is "processed: <int>; failed: <int>; total: <int>; seconds spent:
\* <float>", and nothing else.
FollowsTemplate(s) ==
    LET p == IntEnd(s, LitEnd(s, 1, Bytes(<<"p", "r", "o", "c", "e", "s", "s", "e", "d", ":", " ">>)))
        f == IntEnd(s, LitEnd(s, p, Bytes(<<";", " ", "f", "a", "i", "l", "e", "d", ":", " ">>)))
        t == IntEnd(s, LitEnd(s, f, Bytes(<<";", " ", "t", "o", "t", "a", "l", ":", " ">>)))
        x == FloatEnd(s, LitEnd(s, t, Bytes(<<";", " ", "s", "e", "c", "o", "n", "d", "s", " ", "s", "p", "e", "n", "t", ":", " ">>)))
    IN  x = Len(s) + 1

\* The reply is a frame whose payload is JSON with an info string that
\* deviates from the template.
deviates ==
    [r \in Replies \cup CoreReplies |->
        /\ firstFailure[r] \in {"parse response info",
                                "unexpected scan result count in parsing response", "nil"}
        /\ ~FollowsTemplate(Unmarshal(PayloadOf(r.reader.stream)).resp.Info)]

\* C17: parseResponse returns an error, and no Response, for every info
\* string that deviates from the template "processed: <int>; failed: <int>;
\* total: <int>; seconds spent: <float>": a changed delimiter, changed white
\* space, reordered fields, a token that is no number, text after the
\* fourth value.
C17_DeviationRejected ==
    \A i \in DOMAIN conns :
        (conns[i].replied /\ deviates[conns[i].reply]) =>
            RetOf(i).isNil /\ RetOf(i).err # NoErr

\* The info strings whose deviation the scan does not see: text after the
\* fourth value, and more white space where the template has one space.
ToleratedInfos ==
    {Bytes(<<"p", "r", "o", "c", "e", "s", "s", "e", "d", ":", " ", "1", ";", " ", "f", "a", "i", "l", "e", "d", ":", " ", "0", ";", " ", "t", "o", "t", "a", "l", ":", " ", "1", ";", " ", "s", "e", "c", "o", "n", "d", "s", " ", "s", "p", "e", "n", "t", ":", " ", "0", ".", "5", ";", " ", "e", "x", "t", "r", "a", ":", " ", "9">>),
     Bytes(<<"p", "r", "o", "c", "e", "s", "s", "e", "d", ":", " ", " ", "1", ";", " ", " ", "f", "a", "i", "l", "e", "d", ":", " ", " ", "0", ";", " ", " ", "t", "o", "t", "a", "l", ":", " ", " ", "1", ";", " ", " ", "s", "e", "c", "o", "n", "d", "s", " ", " ", "s", "p", "e", "n", "t", ":", " ", " ", "0", ".", "5">>)}

\* What the code does: of the deviating info strings of the replies, it
\* accepts the ones of ToleratedInfos, with the four values scanned, and
\* rejects every other.
DeviationRejectedButTolerated ==
    \A i \in DOMAIN conns :
        (conns[i].replied /\ deviates[conns[i].reply]) =>
            IF RetOf(i).resp.Info \in ToleratedInfos
            THEN RetOf(i).err = NoErr /\ ~RetOf(i).isNil
            ELSE RetOf(i).isNil /\ RetOf(i).err.msg = "parse response info"

(***************************************************************************)
(* What parseResponse reads of the stream                                  *)
(***************************************************************************)

\* The stream s with its reserved field zeroed and the bytes after its
\* payload removed (s itself when it is shorter than a header).
FrameOnly(s) ==
    IF HeaderMissing(s) THEN s
    ELSE SubSeq(s, 1, 9) \o <<0, 0, 0, 0>>
         \o SubSeq(s, 14, IF PayloadMissing(s) THEN Len(s) ELSE 13 + LengthField(s))

\* parseResponse for the replies reduced to FrameOnly.
parsedFrameOnly ==
    [r \in Replies \cup CoreReplies |->
        parseResponse([stream |-> FrameOnly(r.reader.stream), end |-> r.reader.end])]

\* C18: when parseResponse succeeds it has consumed exactly 13 + L bytes, L
\* being the little-endian value of header bytes 5..8 (counted from 0); L
\* is the number of bytes it tries to read however large it is; the
\* reserved field and the bytes after the payload do not change what it
\* returns, and the bytes after the payload are not read.
C18_ExactlyTheFrameRead ==
    \A i \in DOMAIN conns :
        conns[i].replied =>
            LET s == conns[i].reply.reader.stream
                u == parsedFrameOnly[conns[i].reply]
            IN  /\ RetOf(i).err = NoErr =>
                      /\ conns[i].consumed = 13 + LengthField(s)
                      /\ conns[i].consumed <= Len(s)
                /\ RetOf(i) = [resp |-> u.resp, isNil |-> u.isNil, err |-> u.err]
                /\ conns[i].consumed = u.consumed
                /\ (firstFailure[conns[i].reply] = "read response data") =>
                      /\ conns[i].consumed = Len(s)
                      /\ Len(s) < 13 + LengthField(s)

\* A frame with a reserved field that is not zero and bytes after its
\* payload has been parsed: the bytes after the payload are unread.
C18_TrailerLeftUnread ==
    \E i \in DOMAIN conns :
        /\ conns[i].replied
        /\ RetOf(i).err = NoErr
        /\ SubSeq(conns[i].reply.reader.stream, 10, 13) # <<0, 0, 0, 0>>
        /\ conns[i].consumed = 13 + LengthField(conns[i].reply.reader.stream)
        /\ conns[i].consumed < Len(conns[i].reply.reader.stream)

(***************************************************************************)
(* Counters that do not add up                                             *)
(***************************************************************************)

\* The server's reply r reports a total that is not processed + failed.
Inconsistent(r) == r.wf /\ r.t # r.p + r.f

\* C19: a response whose counters do not satisfy total = processed +
\* failed is accepted: parseResponse returns no error and the Response with
\* the three counters as the info string has them.
C19_TotalNotEnforced ==
    \A i \in DOMAIN conns :
        (conns[i].replied /\ Inconsistent(conns[i].reply)) =>
            /\ RetOf(i).err = NoErr
            /\ ~RetOf(i).isNil
            /\ RetOf(i).resp.Processed = conns[i].reply.p
            /\ RetOf(i).resp.Failed = conns[i].reply.f
            /\ RetOf(i).resp.Total = conns[i].reply.t
            /\ RetOf(i).resp.Total # RetOf(i).resp.Processed + RetOf(i).resp.Failed

\* The reply "processed: 0; failed: -1; total: 40" has been returned as a
\* Response.
C19_InconsistentAccepted ==
    \E i \in DOMAIN conns :
        /\ conns[i].replied
        /\ Inconsistent(conns[i].reply)
        /\ call[conns[i].owner].pc = "done"
        /\ RetOf(i).err = NoErr
        /\ RetOf(i).resp.Failed = 0 - 1
        /\ RetOf(i).resp.Total = 40

(***************************************************************************)
(* The packet that cannot be built                                         *)
(***************************************************************************)

\* buildRequestPacket has failed in call c.
BuildFailedIn(c) == \E k \in Ops(c, "build") : ~call[c].log[k].ok

\* C20: when building the request packet fails, Send returns that error
\* and has neither normalised nor dialled the address: there is no
\* connection attempt and no byte written to the network.
C20_NothingAfterBuildFailure ==
    \A c \in DOMAIN call :
        BuildFailedIn(c) =>
            /\ call[c].pc = "done"
            /\ call[c].ret.isNil
            /\ call[c].ret.err = buildRequestPacket(call[c].data).err
            /\ call[c].ret.err # NoErr
            /\ call[c].addr = <<>>
            /\ call[c].reqPacket = <<>>
            /\ Ops(c, "dial") = {}
            /\ Ops(c, "setWriteDeadline") \cup Ops(c, "write") = {}
            /\ call[c].conn = 0
            /\ OwnedBy(c) = {}
            /\ \A i \in DOMAIN conns : conns[i].sentBy # c

\* A call with a batch over the size limit has returned the size-limit
\* error, with no connection opened.
C20_TooLargeReturned ==
    \E c \in DOMAIN call :
        /\ BuildFailedIn(c)
        /\ call[c].pc = "done"
        /\ call[c].ret.err = ErrRequestPacketSizeLimitExeeded
        /\ conns = <<>>

====
